---- MODULE Spec2Model ----
(***************************************************************************)
(* The AI image studio: slot orchestration, studio page, generation call.  *)
(*                                                                         *)
(* Spec        : the useImageGeneration hook (hooks/use-image-generation)  *)
(* SpecCommute : one batch of the hook, results in every arrival order     *)
(* SpecStudio  : the studio page that tracks whole generations             *)
(* SpecRetry   : the studio page with reference files and retries         *)
(* SpecExec    : one call of the generateImages server function           *)
(* SpecBatch   : one call of batchUploadReferenceImages                    *)
(* SpecResolve : getObjectUrl behind the query caches of the image views   *)
(* SpecPage    : the hook behind the Generate button of routes/studio      *)
(* SpecClear   : the hook with clearCompleted and clearAll                 *)
(* SpecRefs    : useReferenceImages, uploads on every selection change     *)
(* SpecTrack   : concurrent calls of trackServerExecution                  *)
(***************************************************************************)
EXTENDS Integers, Sequences, FiniteSets, Bags, TLC

----------------------------------------------------------------------------
(* Bounds of the model *)

\* largest number of slots the collection is allowed to grow to
MaxSlots == 6
\* largest value Date.now() takes
MaxTime == 1
\* number of distinct values of the random suffix of a batch id
NRand == 2
\* largest imageCount handed to startBatchGeneration
MaxImageCount == 6
\* largest number of startBatchGeneration calls
MaxBatches == 2
\* largest number of cancellations and Executor completions handled
MaxEvents == 2
\* largest batch whose results are delivered in every order
MaxPerm == 3
\* largest number of generations started on the studio page
MaxGenerations == 2
\* largest number of generateImagesMutation.mutate calls on the studio page
MaxDispatch == 3
\* largest image count selected in the studio form
MaxFormCount == 2
\* longest list of files submitted to one batch upload
MaxBatchFiles == 3
\* largest number of reference uploads started
MaxUploads == 3
\* largest number of trackServerExecution calls
MaxTrackCalls == 3
\* largest number of components mounted on the query cache
MaxMounts == 2
\* longest API key submitted to the server function
MaxKeyLen == 40
\* longest list of arbitrary reference files submitted
MaxRefs == 2
\* largest valid image count submitted to the server function
MaxExecCount == 2

----------------------------------------------------------------------------
(* Program constants *)

\* AI_CONFIG.maxImages
MaxImages == 5
\* AI_CONFIG.maxFileSize: 5 * 1024 * 1024
MaxFileSize == 5242880
\* the length validateGoogleApiKey asks of a key
KeyLength == 39
\* ImageGenerationSchema: prompt max(2000)
MaxPromptLength == 2000
\* useR2Images: staleTime, 30 * 60 * 1000 ms
StaleTime == 1800000
\* useR2Images: retry
QueryRetry == 2

----------------------------------------------------------------------------
(* Values *)

\* an optional field that is absent (undefined)
NoValue == "undefined"
\* an absent startTime
NoTime == -1

Prompts == {"a cat"}
Images == {"img1", "img2"}

\* batch_${Date.now()}_${random}
BatchIdOf(t, r) == <<t, r>>
\* slot_${batchId}_${index}
SlotIdOf(batchId, index) == <<batchId, index>>

\* an id no batch ever produces
UnknownId == <<<<0, 0>>, 0>>

Max(a, b) == IF a >= b THEN a ELSE b

\* results generateSingleImage resolves with
ExecutorResults ==
    {[success |-> TRUE, images |-> <<im>>, error |-> NoValue] : im \in Images}
    \cup {[success |-> TRUE, images |-> <<>>, error |-> NoValue],
          [success |-> FALSE, images |-> <<>>, error |-> "No image returned"],
          [success |-> FALSE, images |-> <<>>, error |-> NoValue]}

\* values the mutation function rejects with
ExecutorErrors ==
    {[isError |-> TRUE, message |-> "Failed to read file"],
     [isError |-> FALSE, message |-> NoValue]}

VARIABLES
    imageSlots,  \* useState<ImageSlot[]>: the slot collection
    mutations,   \* bag of slot ids whose generateMutation is in flight
    now,         \* Date.now()
    lastOp,      \* the handler that ran last, with its arguments
    batches,     \* number of startBatchGeneration calls so far
    events,      \* number of cancellations and completions handled so far
    delivered,   \* the settled mutations in arrival order (history)
    form,            \* studio page: useState<ImageGenerationForm>
    generations,     \* studio page: useState<ImageGenerationType[]>
    generatedImages, \* studio page: useState<GeneratedImage[]>
    referenceImages, \* studio page: useState<StoredImage[]>
    genMutations,    \* studio page: generateImagesMutation calls in flight
    genSeq,          \* studio page: number of mutate calls so far
    requested,       \* studio page: what handleGenerate sent for each generation id
    exec,            \* generateImages: the request, the handler's position and locals
    cloud,           \* the blob store and the requests made to the network
    upload,          \* batchUploadReferenceImages: the request, position and locals
    resolver,        \* the query cache in front of getObjectUrl, with its fetch log
    analytics,       \* trackServerExecution: the KV counter and the calls in progress
    refHook          \* useReferenceImages: its state and the uploads in flight

hookVars == <<imageSlots, mutations, batches, events, delivered>>
studioVars == <<form, generations, generatedImages, referenceImages, genMutations, genSeq,
                requested>>
execVars == <<exec, cloud, upload, resolver, analytics, refHook>>
vars == <<imageSlots, mutations, now, lastOp, batches, events, delivered,
          form, generations, generatedImages, referenceImages, genMutations, genSeq,
          requested,
          exec, cloud, upload, resolver, analytics, refHook>>

\* op: the handler; n: its imageCount argument (startBatchGeneration);
\* before: the statuses the slots with the handler's slot id had when it ran
Op(op, n, before) == [op |-> op, n |-> n, before |-> before]

----------------------------------------------------------------------------
(* useImageGeneration *)

\* Array.from({ length: imageCount }, (_, index) => ({ ... status: 'pending' }))
NewSlots(batchId, prompt, imageCount) ==
    [k \in 1..Max(imageCount, 0) |->
        [id |-> SlotIdOf(batchId, k - 1),
         status |-> "pending",
         prompt |-> prompt,
         imageIndex |-> k - 1,
         batchId |-> batchId,
         startTime |-> NoTime,
         image |-> NoValue,
         error |-> NoValue]]

\* variant of MarkGenerating that does not compare ids
MarkGenerating_EverySlot(prev, slotId, t) ==
    [i \in DOMAIN prev |-> [prev[i] EXCEPT !.status = "generating", !.startTime = t]]

\* prev.map(s => s.id === slot.id ? { ...s, status: 'generating', startTime } : s)
MarkGenerating(prev, slotId, t) ==
    [i \in DOMAIN prev |->
        IF prev[i].id = slotId
        THEN [prev[i] EXCEPT !.status = "generating", !.startTime = t]
        ELSE prev[i]]

\* newSlots.forEach(slot => setImageSlots(...)): the updaters run in order
RECURSIVE MarkAllGenerating(_, _, _, _)
MarkAllGenerating(prev, newSlots, k, t) ==
    IF k > Len(newSlots) THEN prev
    ELSE MarkAllGenerating(MarkGenerating(prev, newSlots[k].id, t), newSlots, k + 1, t)

\* the collection right after setImageSlots(prev => [...prev, ...newSlots])
AppendSlots(prev, newSlots) == prev \o newSlots

\* variant of OnSuccess that does not compare ids
OnSuccess_EverySlot(prev, slotId, result) ==
    [i \in DOMAIN prev |->
        IF result.success /\ Len(result.images) > 0
        THEN [prev[i] EXCEPT !.status = "completed", !.image = result.images[1]]
        ELSE [prev[i] EXCEPT !.status = "error",
                             !.error = IF result.error # NoValue
                                       THEN result.error
                                       ELSE "Generation failed"]]

\* onSuccess: ({ slotId, result }) => setImageSlots(prev => prev.map(...))
OnSuccess(prev, slotId, result) ==
    [i \in DOMAIN prev |->
        IF prev[i].id # slotId THEN prev[i]
        ELSE IF result.success /\ Len(result.images) > 0
        THEN [prev[i] EXCEPT !.status = "completed", !.image = result.images[1]]
        ELSE [prev[i] EXCEPT !.status = "error",
                             !.error = IF result.error # NoValue
                                       THEN result.error
                                       ELSE "Generation failed"]]

\* variant of OnError that does not compare ids
OnError_EverySlot(prev, slotId, error) ==
    LET errorMessage == IF error.isError THEN error.message ELSE "Generation failed"
    IN [i \in DOMAIN prev |-> [prev[i] EXCEPT !.status = "error", !.error = errorMessage]]

\* variant of OnError that leaves the slots as they are
OnError_KeepsSlots(prev, slotId, error) == prev

\* onError: (error, { slotId }) => setImageSlots(prev => prev.map(...))
OnError(prev, slotId, error) ==
    LET errorMessage == IF error.isError THEN error.message ELSE "Generation failed"
    IN [i \in DOMAIN prev |->
           IF prev[i].id = slotId
           THEN [prev[i] EXCEPT !.status = "error", !.error = errorMessage]
           ELSE prev[i]]

\* variant of CancelSlots that does not look at the status
CancelSlots_AnyStatus(prev, slotId) ==
    [i \in DOMAIN prev |->
        IF prev[i].id = slotId
        THEN [prev[i] EXCEPT !.status = "error", !.error = "Cancelled by user"]
        ELSE prev[i]]

\* cancelGeneration: prev.map(slot => id matches && generating ? error : slot)
CancelSlots(prev, slotId) ==
    [i \in DOMAIN prev |->
        IF prev[i].id = slotId /\ prev[i].status = "generating"
        THEN [prev[i] EXCEPT !.status = "error", !.error = "Cancelled by user"]
        ELSE prev[i]]

\* imageSlots.some(slot => generating || pending)
hasActiveGenerations ==
    \E i \in DOMAIN imageSlots : imageSlots[i].status \in {"generating", "pending"}

SlotIds == {imageSlots[i].id : i \in DOMAIN imageSlots}

StatusesOf(slotId) ==
    {imageSlots[i].status : i \in {j \in DOMAIN imageSlots : imageSlots[j].id = slotId}}

\* startBatchGeneration(request): slots are created, marked generating and
\* one mutation per slot is started before the handler returns
StartBatchGeneration(imageCount, prompt, r) ==
    LET batchId == BatchIdOf(now, r)
        newSlots == NewSlots(batchId, prompt, imageCount)
        created == AppendSlots(imageSlots, newSlots)
    IN /\ Len(imageSlots) + Max(imageCount, 0) <= MaxSlots
       /\ imageSlots' = MarkAllGenerating(created, newSlots, 1, now)
       /\ mutations' = mutations (+) [id \in {newSlots[k].id : k \in DOMAIN newSlots} |-> 1]
       /\ lastOp' = Op("startBatchGeneration", imageCount, {})
       /\ UNCHANGED now

\* cancelGeneration(slotId)
CancelGeneration(slotId) ==
    /\ imageSlots' = CancelSlots(imageSlots, slotId)
    /\ lastOp' = Op("cancelGeneration", 0, StatusesOf(slotId))
    /\ UNCHANGED <<mutations, now>>

\* the mutation of slotId resolves: onSuccess runs
MutationSuccess(slotId, result) ==
    /\ BagIn(slotId, mutations)
    /\ mutations' = mutations (-) SetToBag({slotId})
    /\ imageSlots' = OnSuccess(imageSlots, slotId, result)
    /\ lastOp' = Op("onSuccess", 0, StatusesOf(slotId))
    /\ UNCHANGED now

\* the mutation of slotId rejects: onError runs
MutationError(slotId, error) ==
    /\ BagIn(slotId, mutations)
    /\ mutations' = mutations (-) SetToBag({slotId})
    /\ imageSlots' = OnError(imageSlots, slotId, error)
    /\ lastOp' = Op("onError", 0, StatusesOf(slotId))
    /\ UNCHANGED now

\* prev.filter(slot => slot.status === 'generating' || slot.status === 'pending')
ClearCompletedSlots(prev) ==
    SelectSeq(prev, LAMBDA slot : slot.status = "generating" \/ slot.status = "pending")

\* clearCompleted()
ClearCompleted ==
    /\ imageSlots' = ClearCompletedSlots(imageSlots)
    /\ lastOp' = Op("clearCompleted", 0, {})
    /\ UNCHANGED <<mutations, now>>

\* clearAll()
ClearAll ==
    /\ imageSlots' = <<>>
    /\ lastOp' = Op("clearAll", 0, {})
    /\ UNCHANGED <<mutations, now>>

\* useReferenceImages before any selection: both states empty, no upload started;
\* latest is the number of the upload made for the current selection (0: none)
RefHookInit ==
    refHook = [uploadedReferenceImages |-> <<>>, referenceImageKeys |-> <<>>,
               inflight |-> {}, seq |-> 0, latest |-> 0, latestAnswered |-> TRUE]

\* no generateImages call has been received
ExecIdle ==
    /\ exec = [pc |-> "idle"]
    /\ cloud = [bucket |-> {}, puts |-> 0, requests |-> 0]
    /\ upload = [pc |-> "idle"]
    /\ resolver = [cache |-> <<>>, mounts |-> 0, log |-> <<>>]
    /\ analytics = [initial |-> NoValue, kv |-> NoValue, calls |-> <<>>]
    /\ RefHookInit

\* the studio page before any input
StudioInit ==
    /\ form = [apiKey |-> "", prompt |-> "", imageCount |-> 1, referenceImages |-> <<>>]
    /\ generations = <<>>
    /\ generatedImages = <<>>
    /\ referenceImages = <<>>
    /\ genMutations = {}
    /\ genSeq = 0
    /\ requested = <<>>

\* wall-clock time passes
Tick ==
    /\ now < MaxTime
    /\ now' = now + 1

\* one more startBatchGeneration call, within the bound
CountBatch ==
    /\ batches < MaxBatches
    /\ batches' = batches + 1
    /\ UNCHANGED <<events, delivered, studioVars, execVars>>

\* one more cancellation or completion, within the bound
CountEvent ==
    /\ events < MaxEvents
    /\ events' = events + 1
    /\ UNCHANGED <<batches, delivered, studioVars, execVars>>

Init ==
    /\ imageSlots = <<>>
    /\ mutations = EmptyBag
    /\ now = 0
    /\ lastOp = Op("init", 0, {})
    /\ batches = 0
    /\ events = 0
    /\ delivered = <<>>
    /\ StudioInit
    /\ ExecIdle

UserStartsBatch ==
    /\ \E n \in -1..MaxImageCount, p \in Prompts, r \in 1..NRand :
          StartBatchGeneration(n, p, r)
    /\ CountBatch

UserCancels ==
    /\ \E id \in SlotIds \cup {UnknownId} : CancelGeneration(id)
    /\ CountEvent

ExecutorResolves ==
    /\ \E id \in BagToSet(mutations), res \in ExecutorResults : MutationSuccess(id, res)
    /\ CountEvent

ExecutorRejects ==
    /\ \E id \in BagToSet(mutations), err \in ExecutorErrors : MutationError(id, err)
    /\ CountEvent

TimePasses ==
    /\ Tick
    /\ UNCHANGED <<hookVars, lastOp, studioVars, execVars>>

Next ==
    \/ UserStartsBatch
    \/ UserCancels
    \/ ExecutorResolves
    \/ ExecutorRejects
    \/ TimePasses

Spec == Init /\ [][Next]_vars

----------------------------------------------------------------------------
(* SpecPage: the hook behind the studio page (routes/studio), where batches *)
(* start from the Generate button only and every request is answered       *)

\* what the Executor answers a request of the page with
PageResults == {[success |-> TRUE, images |-> <<"img1">>, error |-> NoValue]}

\* image counts chosen in the page's select, whose items are 1 to 5
PageCounts == {1, 2, MaxImages}

\* handleGenerate, behind the Generate button
\* (disabled = !form.apiKey || !form.prompt || hasActiveGenerations)
PageGenerates ==
    /\ ~hasActiveGenerations
    /\ \E n \in PageCounts, p \in Prompts, r \in 1..NRand : StartBatchGeneration(n, p, r)
    /\ CountBatch

\* handleCancelGeneration, behind the cancel button of a slot
PageCancels ==
    /\ \E id \in SlotIds : CancelGeneration(id)
    /\ UNCHANGED <<batches, events, delivered, studioVars, execVars>>

PageExecutorResolves ==
    /\ \E id \in BagToSet(mutations), res \in PageResults : MutationSuccess(id, res)
    /\ UNCHANGED <<batches, events, delivered, studioVars, execVars>>

\* the request rejects: the server function or a reference file read failed
PageExecutorRejects ==
    /\ \E id \in BagToSet(mutations) :
          MutationError(id, [isError |-> TRUE, message |-> "Failed to read file"])
    /\ UNCHANGED <<batches, events, delivered, studioVars, execVars>>

NextPage ==
    \/ PageGenerates
    \/ PageCancels
    \/ PageExecutorResolves
    \/ PageExecutorRejects

\* every dispatched request eventually resolves or rejects
PageFairness == WF_vars(PageExecutorResolves \/ PageExecutorRejects)

SpecPage == Init /\ [][NextPage]_vars /\ PageFairness

----------------------------------------------------------------------------
(* SpecClear: the hook with its clearCompleted and clearAll operations      *)

\* imageCount arguments of the batches
ClearCounts == {1, 2}

ClearStartsBatch ==
    /\ \E n \in ClearCounts, p \in Prompts, r \in 1..NRand : StartBatchGeneration(n, p, r)
    /\ CountBatch

UserClearsCompleted ==
    /\ ClearCompleted
    /\ UNCHANGED <<batches, events, delivered, studioVars, execVars>>

UserClearsAll ==
    /\ ClearAll
    /\ UNCHANGED <<batches, events, delivered, studioVars, execVars>>

NextClear ==
    \/ ClearStartsBatch
    \/ PageCancels
    \/ PageExecutorResolves
    \/ PageExecutorRejects
    \/ UserClearsCompleted
    \/ UserClearsAll
    \/ TimePasses

SpecClear == Init /\ [][NextClear]_vars

----------------------------------------------------------------------------
(* SpecCommute: one batch, its results delivered in every arrival order *)

\* useMutation settles a mutation by calling onSuccess or onError, once
Settle(prev, slotId, outcome) ==
    IF outcome.kind = "resolved"
    THEN OnSuccess(prev, slotId, outcome.value)
    ELSE OnError(prev, slotId, outcome.value)

\* the collection startBatchGeneration leaves when called on an empty one
FirstBatch(prompt, imageCount) ==
    LET newSlots == NewSlots(BatchIdOf(0, 1), prompt, imageCount)
    IN MarkAllGenerating(AppendSlots(<<>>, newSlots), newSlots, 1, 0)

InitCommute ==
    /\ \E n \in 1..MaxPerm, p \in Prompts :
          /\ imageSlots = FirstBatch(p, n)
          /\ mutations = SetToBag({FirstBatch(p, n)[k].id : k \in 1..n})
          /\ lastOp = Op("startBatchGeneration", n, {})
    /\ now = 0
    /\ batches = 1
    /\ events = 0
    /\ delivered = <<>>
    /\ StudioInit
    /\ ExecIdle

ResultArrives ==
    /\ \E id \in BagToSet(mutations), res \in ExecutorResults :
          /\ MutationSuccess(id, res)
          /\ delivered' = Append(delivered, [id |-> id, kind |-> "resolved", value |-> res])
    /\ UNCHANGED <<batches, events, studioVars, execVars>>

FailureArrives ==
    /\ \E id \in BagToSet(mutations), err \in ExecutorErrors :
          /\ MutationError(id, err)
          /\ delivered' = Append(delivered, [id |-> id, kind |-> "rejected", value |-> err])
    /\ UNCHANGED <<batches, events, studioVars, execVars>>

NextCommute ==
    \/ ResultArrives
    \/ FailureArrives

SpecCommute == InitCommute /\ [][NextCommute]_vars

----------------------------------------------------------------------------
(* Strings, as the JavaScript string methods compute them                  *)

\* String.prototype.includes
Includes(s, sub) ==
    \E i \in 1..(Len(s) - Len(sub) + 1) : SubSeq(s, i, i + Len(sub) - 1) = sub

\* String.prototype.startsWith
StartsWith(s, prefix) ==
    /\ Len(s) >= Len(prefix)
    /\ SubSeq(s, 1, Len(prefix)) = prefix

\* the white space String.prototype.trim removes
WhiteSpace == {" "}

RECURSIVE TrimStart(_)
TrimStart(s) ==
    IF Len(s) > 0 /\ SubSeq(s, 1, 1) \in WhiteSpace
    THEN TrimStart(SubSeq(s, 2, Len(s)))
    ELSE s

RECURSIVE TrimEnd(_)
TrimEnd(s) ==
    IF Len(s) > 0 /\ SubSeq(s, Len(s), Len(s)) \in WhiteSpace
    THEN TrimEnd(SubSeq(s, 1, Len(s) - 1))
    ELSE s

\* String.prototype.trim
Trim(s) == TrimEnd(TrimStart(s))

\* String(n) of a natural number
RECURSIVE NumStr(_)
NumStr(n) ==
    IF n < 10
    THEN SubSeq("0123456789", n + 1, n + 1)
    ELSE NumStr(n \div 10) \o SubSeq("0123456789", (n % 10) + 1, (n % 10) + 1)

\* parseInt of a string of decimal digits
RECURSIVE ParseInt(_)
ParseInt(str) ==
    IF Len(str) = 0 THEN 0
    ELSE LET last == SubSeq(str, Len(str), Len(str))
             digit == CHOOSE d \in 0..9 : SubSeq("0123456789", d + 1, d + 1) = last
         IN  10 * ParseInt(SubSeq(str, 1, Len(str) - 1)) + digit

\* (size / (1024 * 1024)).toFixed(2)
SizeMB(size) ==
    LET hundredths == (size * 100 + 524288) \div 1048576
        frac == hundredths % 100
    IN  NumStr(hundredths \div 100) \o "." \o
        (IF frac < 10 THEN "0" ELSE "") \o NumStr(frac)

\* fileName.split('.').pop()
RECURSIVE AfterLastDot(_)
AfterLastDot(name) ==
    IF Includes(name, ".")
    THEN LET i == CHOOSE k \in 1..Len(name) : SubSeq(name, k, k) = "."
         IN  AfterLastDot(SubSeq(name, i + 1, Len(name)))
    ELSE name

\* strings Math.random().toString(36).substring(2, 8) may give
RandomSuffixes == {"k3x9ab", "q7m2zd"}

----------------------------------------------------------------------------
(* SpecStudio: the studio page that tracks whole generations (StudioPage   *)
(* with handleGenerate / handleCancelGeneration / handleRetryGeneration)   *)

FormApiKeys == {"", "key1"}
\* with a second credential to change to
RetryApiKeys == FormApiKeys \cup {"key2"}
FormPrompts == {"", "a cat"}

\* gen_${Date.now()}_${random}
GenerationIdOf(t, r) == <<t, r>>

\* values the mutation rejects with
StudioErrors ==
    {[isError |-> TRUE, message |-> "Network error"],
     [isError |-> FALSE, message |-> NoValue]}

\* file lists the upload control hands to handleFilesChange
FormFileLists ==
    {<<>>,
     <<[file |-> [name |-> "scan.bmp"], isValid |-> FALSE],
       [file |-> [name |-> "cat.png"], isValid |-> TRUE]>>}

\* the preview objects handleFilesChange shows for the chosen files
Previews(uploadedFiles) ==
    [i \in DOMAIN uploadedFiles |->
        [filename |-> uploadedFiles[i].file.name, r2Key |-> "", type |-> "reference"]]

\* form.referenceImages.filter((f) => f.isValid).map((f) => f.file)
ValidFiles(uploadedFiles) ==
    LET valid == SelectSeq(uploadedFiles, LAMBDA f : f.isValid)
    IN  [i \in DOMAIN valid |-> valid[i].file]

\* the reference images of a request as generateImages stores and returns them
StoredReferences(files, t, r) ==
    [i \in DOMAIN files |->
        [filename |-> files[i].name,
         r2Key |-> "reference_image/" \o NumStr(t) \o "-" \o r \o "."
                      \o AfterLastDot(files[i].name),
         type |-> "reference"]]

\* responses generateImages resolves a request with
StudioResponsesTo(m) ==
    {[success |-> TRUE, images |-> <<"img1">>,
      referenceImages |-> StoredReferences(m.referenceImages, now, r), error |-> NoValue] :
        r \in RandomSuffixes}
    \cup {[success |-> FALSE, images |-> <<>>, referenceImages |-> <<>>,
           error |-> "No images were successfully generated and stored"]}

\* generateImagesMutation.isPending: the mutation started last has not settled
isPending == \E m \in genMutations : m.seq = genSeq

\* generateImagesMutation.mutate(variables)
Mutate(variables) == genMutations \cup {[variables EXCEPT !.seq = genSeq + 1]}

\* onChange of the API key input
SetApiKey(k) ==
    /\ form' = [form EXCEPT !.apiKey = k]
    /\ lastOp' = Op("formChange", 0, {})
    /\ UNCHANGED <<generations, generatedImages, referenceImages, genMutations, genSeq, requested, now>>

\* onChange of the prompt textarea
SetPrompt(p) ==
    /\ form' = [form EXCEPT !.prompt = p]
    /\ lastOp' = Op("formChange", 0, {})
    /\ UNCHANGED <<generations, generatedImages, referenceImages, genMutations, genSeq, requested, now>>

\* onValueChange of the image count select
SetImageCount(n) ==
    /\ form' = [form EXCEPT !.imageCount = n]
    /\ lastOp' = Op("formChange", 0, {})
    /\ UNCHANGED <<generations, generatedImages, referenceImages, genMutations, genSeq, requested, now>>

\* handleFilesChange, behind the reference image upload control
HandleFilesChange(uploadedFiles) ==
    /\ form' = [form EXCEPT !.referenceImages = uploadedFiles]
    /\ referenceImages' = Previews(uploadedFiles)
    /\ lastOp' = Op("handleFilesChange", Len(uploadedFiles), {})
    /\ UNCHANGED <<generations, generatedImages, genMutations, genSeq, requested, now>>

GenerationStatuses(generationId) ==
    {generations[i].status :
        i \in {j \in DOMAIN generations : generations[j].id = generationId}}

\* handleGenerate, behind the Generate button
\* (disabled = !form.apiKey || !form.prompt || isPending)
HandleGenerate(r) ==
    LET generationId == GenerationIdOf(now, r)
        files == ValidFiles(form.referenceImages)
        variables == [generationId |-> generationId,
                      seq |-> 0,
                      apiKey |-> form.apiKey,
                      prompt |-> form.prompt,
                      count |-> form.imageCount,
                      referenceImages |-> files]
        newGeneration == [id |-> generationId,
                          prompt |-> form.prompt,
                          imageCount |-> form.imageCount,
                          startTime |-> now,
                          status |-> "generating",
                          error |-> NoValue,
                          images |-> <<>>]
    IN /\ form.apiKey # "" /\ form.prompt # "" /\ ~isPending
       /\ generations' = <<newGeneration>> \o generations
       /\ genMutations' = Mutate(variables)
       /\ genSeq' = genSeq + 1
       /\ requested' = [id \in DOMAIN requested \cup {generationId} |->
                            IF id = generationId THEN variables ELSE requested[id]]
       /\ lastOp' = Op("handleGenerate", form.imageCount, {})
       /\ UNCHANGED <<form, generatedImages, referenceImages, now>>

\* setGenerations(prev => prev.map(gen => gen.id === id ? cancelled : gen))
CancelGenerations(prev, generationId) ==
    [i \in DOMAIN prev |->
        IF prev[i].id = generationId
        THEN [prev[i] EXCEPT !.status = "error", !.error = "Cancelled by user"]
        ELSE prev[i]]

\* handleCancelGeneration, behind the cancel button of a generating card
HandleCancelGeneration(generationId) ==
    /\ "generating" \in GenerationStatuses(generationId)
    /\ generations' = CancelGenerations(generations, generationId)
    /\ lastOp' = Op("handleCancelGeneration", 0, GenerationStatuses(generationId))
    /\ UNCHANGED <<form, generatedImages, referenceImages, genMutations, genSeq, requested, now>>

\* setGenerations(prev => prev.map(gen => gen.id === id ? reset : gen))
RetryGenerations(prev, generationId, t) ==
    [i \in DOMAIN prev |->
        IF prev[i].id = generationId
        THEN [prev[i] EXCEPT !.status = "generating", !.startTime = t, !.error = NoValue]
        ELSE prev[i]]

\* handleRetryGeneration, behind the retry button of an error card
HandleRetryGeneration(generationId) ==
    LET generation == generations[CHOOSE i \in DOMAIN generations :
                                     /\ generations[i].id = generationId
                                     /\ \A j \in 1..(i - 1) : generations[j].id # generationId]
    IN /\ "error" \in GenerationStatuses(generationId)
       /\ generations' = RetryGenerations(generations, generationId, now)
       /\ genMutations' = Mutate([generationId |-> generationId,
                                  seq |-> 0,
                                  apiKey |-> form.apiKey,
                                  prompt |-> generation.prompt,
                                  count |-> generation.imageCount,
                                  referenceImages |-> <<>>])
       /\ genSeq' = genSeq + 1
       /\ lastOp' = Op("handleRetryGeneration", 0, GenerationStatuses(generationId))
       /\ UNCHANGED <<form, generatedImages, referenceImages, requested, now>>

\* onSuccess: (response, variables): only a successful response is recorded
GenerationsOnSuccess(prev, generationId, response) ==
    IF response.success
    THEN [i \in DOMAIN prev |->
             IF prev[i].id = generationId
             THEN [prev[i] EXCEPT !.status = "completed", !.images = response.images]
             ELSE prev[i]]
    ELSE prev

\* onError: (error, variables)
GenerationsOnError(prev, generationId, error) ==
    LET errorMessage == IF error.isError THEN error.message ELSE "Generation failed"
    IN [i \in DOMAIN prev |->
           IF prev[i].id = generationId
           THEN [prev[i] EXCEPT !.status = "error", !.error = errorMessage]
           ELSE prev[i]]

\* a generateImages call resolves
GenerateImagesResolves(m, response) ==
    /\ m \in genMutations
    /\ genMutations' = genMutations \ {m}
    /\ generations' = GenerationsOnSuccess(generations, m.generationId, response)
    /\ referenceImages' = IF response.success /\ Len(response.referenceImages) > 0
                          THEN response.referenceImages
                          ELSE referenceImages
    /\ generatedImages' = IF response.success
                          THEN generatedImages \o response.images
                          ELSE generatedImages
    /\ lastOp' = Op("generateImages.onSuccess", 0, GenerationStatuses(m.generationId))
    /\ UNCHANGED <<form, genSeq, requested, now>>

\* a generateImages call rejects
GenerateImagesRejects(m, error) ==
    /\ m \in genMutations
    /\ genMutations' = genMutations \ {m}
    /\ generations' = GenerationsOnError(generations, m.generationId, error)
    /\ lastOp' = Op("generateImages.onError", 0, GenerationStatuses(m.generationId))
    /\ UNCHANGED <<form, generatedImages, referenceImages, genSeq, requested, now>>

GenerationIds == {generations[i].id : i \in DOMAIN generations}

InitStudio ==
    /\ imageSlots = <<>>
    /\ mutations = EmptyBag
    /\ now = 0
    /\ lastOp = Op("init", 0, {})
    /\ batches = 0
    /\ events = 0
    /\ delivered = <<>>
    /\ StudioInit
    /\ ExecIdle

UserEditsApiKey ==
    /\ \E k \in FormApiKeys : SetApiKey(k)
    /\ UNCHANGED <<hookVars, execVars>>

UserEditsPrompt ==
    /\ \E p \in FormPrompts : SetPrompt(p)
    /\ UNCHANGED <<hookVars, execVars>>

UserChoosesFiles ==
    /\ \E uploadedFiles \in FormFileLists : HandleFilesChange(uploadedFiles)
    /\ UNCHANGED <<hookVars, execVars>>

UserSelectsCount ==
    /\ \E n \in 1..MaxFormCount : SetImageCount(n)
    /\ UNCHANGED <<hookVars, execVars>>

UserGenerates ==
    /\ Len(generations) < MaxGenerations
    /\ genSeq < MaxDispatch
    /\ \E r \in 1..NRand : HandleGenerate(r)
    /\ UNCHANGED <<hookVars, execVars>>

UserCancelsGeneration ==
    /\ \E id \in GenerationIds : HandleCancelGeneration(id)
    /\ UNCHANGED <<hookVars, execVars>>

UserRetriesGeneration ==
    /\ genSeq < MaxDispatch
    /\ \E id \in GenerationIds : HandleRetryGeneration(id)
    /\ UNCHANGED <<hookVars, execVars>>

ServerResolves ==
    /\ \E m \in genMutations : \E response \in StudioResponsesTo(m) :
          GenerateImagesResolves(m, response)
    /\ UNCHANGED <<hookVars, execVars>>

ServerRejects ==
    /\ \E m \in genMutations, error \in StudioErrors : GenerateImagesRejects(m, error)
    /\ UNCHANGED <<hookVars, execVars>>

StudioTimePasses ==
    /\ Tick
    /\ UNCHANGED <<hookVars, lastOp, studioVars, execVars>>

NextStudio ==
    \/ UserEditsApiKey
    \/ UserEditsPrompt
    \/ UserSelectsCount
    \/ UserGenerates
    \/ UserCancelsGeneration
    \/ UserRetriesGeneration
    \/ ServerResolves
    \/ ServerRejects
    \/ StudioTimePasses

SpecStudio == InitStudio /\ [][NextStudio]_vars

\* the studio page with reference files, within one millisecond and without
\* the count select and the cancel button
UserReplacesApiKey ==
    /\ \E k \in RetryApiKeys : SetApiKey(k)
    /\ UNCHANGED <<hookVars, execVars>>

NextRetry ==
    \/ UserReplacesApiKey
    \/ UserEditsPrompt
    \/ UserChoosesFiles
    \/ UserGenerates
    \/ UserRetriesGeneration
    \/ ServerResolves
    \/ ServerRejects

SpecRetry == InitStudio /\ [][NextRetry]_vars

----------------------------------------------------------------------------
(* SpecExec: one call of the generateImages server function                *)

\* AI_CONFIG.supportedFormats
SupportedFormats == <<"image/jpeg", "image/png", "image/webp", "image/gif">>

\* supportedFormats.join(', ')
RECURSIVE Join(_, _)
Join(list, sep) ==
    IF list = <<>> THEN ""
    ELSE IF Len(list) = 1 THEN list[1]
    ELSE list[1] \o sep \o Join(Tail(list), sep)

\* a credential as the caller passes it: typed as a string, but a value of
\* another type at run time is what the first test of validateGoogleApiKey is for
StringKey(s) == [isString |-> TRUE, chars |-> s]
NotAString == [isString |-> FALSE, chars |-> ""]

\* variant of validateGoogleApiKey without the length test
validateGoogleApiKey_NoLengthTest(apiKey) ==
    IF ~apiKey.isString
    THEN [isValid |-> FALSE, error |-> "API key must be a string"]
    ELSE IF Trim(apiKey.chars) = ""
    THEN [isValid |-> FALSE, error |-> "API key is required"]
    ELSE IF ~StartsWith(apiKey.chars, "AIza")
    THEN [isValid |-> FALSE, error |-> "Google API key must start with \"AIza\""]
    ELSE [isValid |-> TRUE, error |-> NoValue]

validateGoogleApiKey(apiKey) ==
    IF ~apiKey.isString
    THEN [isValid |-> FALSE, error |-> "API key must be a string"]
    ELSE IF Trim(apiKey.chars) = ""
    THEN [isValid |-> FALSE, error |-> "API key is required"]
    ELSE IF ~StartsWith(apiKey.chars, "AIza")
    THEN [isValid |-> FALSE, error |-> "Google API key must start with \"AIza\""]
    ELSE IF Len(apiKey.chars) # KeyLength
    THEN [isValid |-> FALSE, error |-> "Google API key must be 39 characters long"]
    ELSE [isValid |-> TRUE, error |-> NoValue]

\* variant of validateImageFile without the size test
validateImageFile_NoSizeTest(file) ==
    IF \A k \in 1..Len(SupportedFormats) : SupportedFormats[k] # file.type
    THEN [isValid |-> FALSE,
          error |-> "Unsupported file format: " \o file.type \o
                    ". Supported formats: " \o Join(SupportedFormats, ", ")]
    ELSE [isValid |-> TRUE, error |-> NoValue]

validateImageFile(file) ==
    IF file.size > MaxFileSize
    THEN [isValid |-> FALSE,
          error |-> "File size (" \o SizeMB(file.size) \o
                    "MB) exceeds maximum allowed size of " \o
                    NumStr(MaxFileSize \div 1048576) \o "MB"]
    ELSE IF \A k \in 1..Len(SupportedFormats) : SupportedFormats[k] # file.type
    THEN [isValid |-> FALSE,
          error |-> "Unsupported file format: " \o file.type \o
                    ". Supported formats: " \o Join(SupportedFormats, ", ")]
    ELSE [isValid |-> TRUE, error |-> NoValue]

\* ImageGenerationSchema.parse
SchemaAccepts(data) ==
    /\ data.apiKey.isString
    /\ Len(data.apiKey.chars) >= 1
    /\ Len(data.prompt) >= 1
    /\ Len(data.prompt) <= MaxPromptLength
    /\ data.count >= 1
    /\ data.count <= 5
    /\ Len(data.referenceImages) <= 5

\* the tests generateAIImages makes before it creates the provider
GenerateAIImagesPreflight(options) ==
    LET validation == validateGoogleApiKey(options.apiKey)
        refs == options.referenceImages
        TooBig(k) == refs[k].size > MaxFileSize
        BadType(k) == \A f \in 1..Len(SupportedFormats) : SupportedFormats[f] # refs[k].type
        Bad == {k \in 1..Len(refs) : TooBig(k) \/ BadType(k)}
        first == CHOOSE k \in Bad : \A j \in Bad : k <= j
    IN  IF ~validation.isValid THEN validation.error
        ELSE IF options.count < 1 \/ options.count > MaxImages
        THEN "Image count must be between 1 and " \o NumStr(MaxImages)
        ELSE IF Len(refs) > MaxImages
        THEN "Maximum " \o NumStr(MaxImages) \o " reference images allowed"
        ELSE IF Bad # {}
        THEN IF TooBig(first)
             THEN "File " \o refs[first].name \o " exceeds maximum size of " \o
                  NumStr(MaxFileSize \div 1048576) \o "MB"
             ELSE "Unsupported file format: " \o refs[first].type
        ELSE NoValue

\* the catch block of generateAIImages with the rate limit test first
GenerateAIImagesCatch_RateLimitFirst(error) ==
    IF error.isError /\ Includes(error.message, "rate limit")
    THEN "Rate limit exceeded. Please wait a moment before trying again."
    ELSE IF error.isError /\ Includes(error.message, "quota")
    THEN "API quota exceeded. Please check your Google API usage limits."
    ELSE IF error.isError /\ Includes(error.message, "authentication")
    THEN "Invalid API key. Please check your Google API key."
    ELSE "Failed to generate images. Please try again."

\* the catch block of generateAIImages
GenerateAIImagesCatch(error) ==
    IF error.isError /\ Includes(error.message, "quota")
    THEN "API quota exceeded. Please check your Google API usage limits."
    ELSE IF error.isError /\ Includes(error.message, "authentication")
    THEN "Invalid API key. Please check your Google API key."
    ELSE IF error.isError /\ Includes(error.message, "rate limit")
    THEN "Rate limit exceeded. Please wait a moment before trying again."
    ELSE "Failed to generate images. Please try again."

\* the catch block of generateImages
GenerateImagesCatch(error) ==
    IF ~error.isError THEN "Image generation failed"
    ELSE IF Includes(error.message, "quota")
    THEN "API quota exceeded. Please check your Google API usage limits."
    ELSE IF Includes(error.message, "authentication") \/ Includes(error.message, "API key")
    THEN "Invalid API key. Please check your Google API key."
    ELSE IF Includes(error.message, "rate limit")
    THEN "Rate limit exceeded. Please wait a moment before trying again."
    ELSE error.message

\* a string of the given length: the prefix, then the fill character
RECURSIVE Repeat(_, _)
Repeat(s, n) ==
    IF n = 0 THEN ""
    ELSE IF n % 2 = 0 THEN LET half == Repeat(s, n \div 2) IN half \o half
    ELSE s \o Repeat(s, n - 1)

Pad(prefix, fill, len) == SubSeq(prefix \o Repeat(fill, len), 1, len)

KeyLengths == {0, 3, 9} \cup ((KeyLength - 1)..MaxKeyLen)
ExecApiKeys ==
    {NotAString}
    \cup {StringKey(Pad(p, f, n)) :
            p \in {"AIza", "xyzA", "AIzA", " AIz", "    "}, f \in {"T", " "}, n \in KeyLengths}

ExecPrompts == {"", "a cat", Pad("", "x", MaxPromptLength + 1)}
ExecCounts == {0, MaxImages + 1} \cup (1..MaxExecCount)

ExecFiles ==
    { [name |-> "cat.png",  type |-> "image/png",  size |-> 1024],
      [name |-> "edge.jpg", type |-> "image/jpeg", size |-> MaxFileSize],
      [name |-> "big.png",  type |-> "image/png",  size |-> MaxFileSize + 1],
      [name |-> "scan.bmp", type |-> "image/bmp",  size |-> 1024] }

ExecReferenceLists ==
    UNION {[1..n -> ExecFiles] : n \in 0..MaxRefs}
    \cup {[k \in 1..(MaxImages + 1) |-> [name |-> "cat.png", type |-> "image/png", size |-> 1024]]}

\* what one generateText call gives back: result.files, or a thrown value
EndpointResults ==
    { [defined |-> FALSE, files |-> <<>>],
      [defined |-> TRUE,  files |-> <<>>],
      [defined |-> TRUE,  files |-> <<[mediaType |-> "image/png",  isBytes |-> TRUE]>>],
      [defined |-> TRUE,  files |-> <<[mediaType |-> "image/jpeg", isBytes |-> TRUE]>>],
      [defined |-> TRUE,  files |-> <<[mediaType |-> "text/plain", isBytes |-> TRUE]>>],
      [defined |-> TRUE,  files |-> <<[mediaType |-> "image/png",  isBytes |-> FALSE]>>] }

EndpointErrors ==
    { [isError |-> TRUE,  message |-> "You exceeded your current quota"],
      [isError |-> TRUE,  message |-> "Request had invalid authentication credentials"],
      [isError |-> TRUE,  message |-> "rate limit reached"],
      [isError |-> TRUE,  message |-> "fetch failed"],
      [isError |-> TRUE,  message |-> "quota: rate limit of authentication requests"],
      [isError |-> TRUE,  message |-> "authentication rate limit"],
      [isError |-> TRUE,  message |-> "API key not valid"],
      [isError |-> FALSE, message |-> NoValue] }

NotValidated == [isValid |-> FALSE, error |-> NoValue]
NoResponse == [success |-> FALSE, error |-> NoValue, images |-> <<>>, referenceImages |-> <<>>]
Failure(error) == [success |-> FALSE, error |-> error, images |-> <<>>, referenceImages |-> <<>>]

\* putR2BinaryObject: bucket.put, its failure turned into a result
putR2BinaryObject(key, putOk) ==
    IF putOk THEN [success |-> TRUE, error |-> NoValue]
    ELSE [success |-> FALSE, error |-> "Error: R2 put failed"]

\* the blob store after one put of the key
CloudAfterPut(key, putOk) ==
    [cloud EXCEPT !.puts = @ + 1,
                  !.bucket = IF putOk THEN @ \cup {key} ELSE @]

\* the handler of uploadReferenceImage, up to its result
UploadReferenceImageResult(data, t, r, putOk) ==
    LET validation == validateImageFile([name |-> data.fileName, type |-> data.fileType,
                                         size |-> data.fileSize])
        ext == IF AfterLastDot(data.fileName) = "" THEN "jpg" ELSE AfterLastDot(data.fileName)
        r2Key == "reference_image/" \o NumStr(t) \o "-" \o r \o "." \o ext
        uploadResult == putR2BinaryObject(r2Key, putOk)
    IN  IF ~validation.isValid
        THEN [success |-> FALSE, r2Key |-> "", error |-> validation.error,
              put |-> FALSE, putKey |-> r2Key]
        ELSE IF ~uploadResult.success
        THEN [success |-> FALSE, r2Key |-> "",
              error |-> "Failed to upload to R2: " \o uploadResult.error,
              put |-> TRUE, putKey |-> r2Key]
        ELSE [success |-> TRUE, r2Key |-> r2Key, error |-> NoValue,
              put |-> TRUE, putKey |-> r2Key]

\* the call ends with this response
ExecDone(response) ==
    exec' = [exec EXCEPT !.pc = "done", !.response = response]

\* generateImages: input validator, then the handler up to its first await
ReceiveGenerateImages(data) ==
    /\ exec.pc = "idle"
    /\ LET keyValidation == validateGoogleApiKey(data.apiKey)
           started == [pc |-> "references", data |-> data, keyValidation |-> NotValidated,
                       i |-> 0, processedReferenceImages |-> <<>>, images |-> <<>>, j |-> 0,
                       k |-> 0, generatedImages |-> <<>>, response |-> NoResponse,
                       imagePartSeen |-> FALSE, promptStructure |-> NoValue,
                       request |-> NoValue, threw |-> FALSE,
                       thrown |-> [isError |-> FALSE, message |-> NoValue]]
       IN  IF ~SchemaAccepts(data)
           THEN exec' = [started EXCEPT !.pc = "rejected"]
           ELSE IF ~keyValidation.isValid
           THEN exec' = [started EXCEPT !.pc = "done", !.keyValidation = keyValidation,
                                        !.response = Failure(keyValidation.error)]
           ELSE exec' = [started EXCEPT !.keyValidation = keyValidation]
    /\ UNCHANGED <<cloud, now>>

\* one turn of the loop over data.referenceImages
ProcessReferenceImage(readOk, r, putOk) ==
    /\ exec.pc = "references"
    /\ exec.i < Len(exec.data.referenceImages)
    /\ LET file == exec.data.referenceImages[exec.i + 1]
           validation == validateImageFile(file)
           uploadResponse ==
               UploadReferenceImageResult([fileName |-> file.name, fileType |-> file.type,
                                           fileSize |-> file.size], now, r, putOk)
       IN  IF ~validation.isValid
           THEN /\ ExecDone(Failure("Reference image " \o NumStr(exec.i + 1) \o ": " \o
                                    validation.error))
                /\ UNCHANGED cloud
           ELSE IF ~readOk
           THEN /\ ExecDone(Failure(GenerateImagesCatch(
                                [isError |-> TRUE, message |-> "Failed to read file"])))
                /\ UNCHANGED cloud
           ELSE /\ cloud' = IF uploadResponse.put
                            THEN CloudAfterPut(uploadResponse.putKey, putOk)
                            ELSE cloud
                /\ IF ~uploadResponse.success
                   THEN ExecDone(Failure("Failed to upload reference image " \o
                                         NumStr(exec.i + 1) \o ": " \o uploadResponse.error))
                   ELSE exec' = [exec EXCEPT
                                   !.i = @ + 1,
                                   !.processedReferenceImages =
                                       Append(@, [filename |-> file.name,
                                                  r2Key |-> uploadResponse.r2Key,
                                                  type |-> "reference"])]
    /\ UNCHANGED now

\* the prompt generateAIImages hands to generateText, with only the text
PromptStructure_TextOnly(prompt, files) == [kind |-> "text", text |-> prompt, messages |-> <<>>]

\* the prompt generateAIImages hands to generateText: the prompt string, or one
\* user message of a text part followed by an image part per reference
PromptStructure(prompt, files) ==
    IF Len(files) > 0
    THEN [kind |-> "messages", text |-> NoValue,
          messages |->
             <<[role |-> "user",
                content |->
                   <<[type |-> "text", text |-> prompt, image |-> NoValue,
                      mediaType |-> NoValue]>>
                   \o [i \in 1..Len(files) |->
                          [type |-> "image", text |-> NoValue, image |-> files[i].name,
                           mediaType |-> files[i].type]]]>>]
    ELSE [kind |-> "text", text |-> prompt, messages |-> <<>>]

\* generateAIImages is called: its tests, then the provider and the prompt
CallGenerateAIImages ==
    /\ exec.pc = "references"
    /\ exec.i = Len(exec.data.referenceImages)
    /\ LET thrown == GenerateAIImagesPreflight(exec.data)
       IN  IF thrown # NoValue
           THEN ExecDone(Failure(GenerateImagesCatch([isError |-> TRUE, message |-> thrown])))
           ELSE exec' = [exec EXCEPT
                           !.pc = "endpoint",
                           !.promptStructure = PromptStructure(exec.data.prompt,
                                                               exec.data.referenceImages)]
    /\ UNCHANGED <<cloud, now>>

RECURSIVE ImageFiles(_), ImageFiles_EveryPart(_)
\* variant of ImageFiles that keeps every part
ImageFiles_EveryPart(files) ==
    IF files = <<>> THEN <<>>
    ELSE <<[data |-> TRUE, mediaType |-> Head(files).mediaType]>> \o ImageFiles_EveryPart(Tail(files))

\* the image files generateAIImages keeps of one result
ImageFiles(files) ==
    IF files = <<>> THEN <<>>
    ELSE IF StartsWith(Head(files).mediaType, "image/") /\ Head(files).isBytes
    THEN <<[data |-> TRUE, mediaType |-> Head(files).mediaType]>> \o ImageFiles(Tail(files))
    ELSE ImageFiles(Tail(files))

\* the endpoint's answer carries an image-typed part with a byte payload (history)
HasImagePart(textResult) ==
    /\ textResult.defined
    /\ \E k \in 1..Len(textResult.files) :
          /\ textResult.files[k].isBytes
          /\ textResult.files[k].mediaType \in {"image/png", "image/jpeg", "image/webp", "image/gif"}

\* one turn of the loop of generateAIImages: one generateText request that resolves
EndpointResolves(textResult) ==
    /\ exec.pc = "endpoint"
    /\ exec.j < exec.data.count
    /\ cloud' = [cloud EXCEPT !.requests = @ + 1]
    /\ exec' = [exec EXCEPT
                  !.j = @ + 1,
                  !.request = exec.promptStructure,
                  !.images = IF ~textResult.defined \/ Len(textResult.files) = 0
                             THEN @
                             ELSE @ \o ImageFiles(textResult.files),
                  !.imagePartSeen = @ \/ HasImagePart(textResult)]
    /\ UNCHANGED now

\* one generateText request that throws: both catch blocks run
EndpointThrows(error) ==
    /\ exec.pc = "endpoint"
    /\ exec.j < exec.data.count
    /\ cloud' = [cloud EXCEPT !.requests = @ + 1]
    /\ exec' = [exec EXCEPT
                  !.pc = "done",
                  !.request = exec.promptStructure,
                  !.threw = TRUE,
                  !.thrown = error,
                  !.response = Failure(GenerateImagesCatch(
                      [isError |-> TRUE, message |-> GenerateAIImagesCatch(error)]))]
    /\ UNCHANGED now

\* generateAIImages returns { images }
GenerateAIImagesReturns ==
    /\ exec.pc = "endpoint"
    /\ exec.j = exec.data.count
    /\ exec' = [exec EXCEPT !.pc = "store"]
    /\ UNCHANGED <<cloud, now>>

\* one turn of the loop that stores the generated images
StoreGeneratedImage(r, putOk) ==
    /\ exec.pc = "store"
    /\ exec.k < Len(exec.images)
    /\ LET image == exec.images[exec.k + 1]
           contentType == image.mediaType
           fileExtension == IF Includes(contentType, "png") THEN "png" ELSE "jpg"
           r2Key == "generations/" \o NumStr(now) \o "-" \o NumStr(exec.k) \o "-" \o
                    r \o "." \o fileExtension
           uploadResult == putR2BinaryObject(r2Key, putOk)
       IN  IF ~image.data
           THEN /\ exec' = [exec EXCEPT !.k = @ + 1]
                /\ UNCHANGED cloud
           ELSE /\ cloud' = CloudAfterPut(r2Key, putOk)
                /\ exec' = [exec EXCEPT
                              !.k = @ + 1,
                              !.generatedImages =
                                  IF uploadResult.success
                                  THEN Append(@, [id |-> NumStr(now) \o "-" \o NumStr(exec.k)
                                                         \o "-" \o r,
                                                  format |-> contentType,
                                                  r2Key |-> r2Key])
                                  ELSE @]
    /\ UNCHANGED now

\* the handler returns
FinishGenerateImages ==
    /\ exec.pc = "store"
    /\ exec.k = Len(exec.images)
    /\ IF Len(exec.generatedImages) = 0
       THEN ExecDone(Failure("No images were successfully generated and stored"))
       ELSE ExecDone([success |-> TRUE, error |-> NoValue,
                      images |-> exec.generatedImages,
                      referenceImages |-> exec.processedReferenceImages])
    /\ UNCHANGED <<cloud, now>>

InitExec ==
    /\ imageSlots = <<>>
    /\ mutations = EmptyBag
    /\ now = 0
    /\ lastOp = Op("init", 0, {})
    /\ batches = 0
    /\ events = 0
    /\ delivered = <<>>
    /\ StudioInit
    /\ ExecIdle

ExecFrame == UNCHANGED <<hookVars, lastOp, studioVars, upload, resolver, analytics, refHook>>

CallerInvokes ==
    /\ exec.pc = "idle"
    /\ \E apiKey \in ExecApiKeys, prompt \in ExecPrompts, count \in ExecCounts,
          files \in ExecReferenceLists :
          ReceiveGenerateImages([apiKey |-> apiKey, prompt |-> prompt, count |-> count,
                                 referenceImages |-> files])
    /\ ExecFrame

ReferenceProcessed ==
    /\ \E readOk \in BOOLEAN, r \in RandomSuffixes, putOk \in BOOLEAN :
          ProcessReferenceImage(readOk, r, putOk)
    /\ ExecFrame

GenerationStarts ==
    /\ CallGenerateAIImages
    /\ ExecFrame

EndpointAnswers ==
    /\ \E textResult \in EndpointResults : EndpointResolves(textResult)
    /\ ExecFrame

EndpointFails ==
    /\ \E error \in EndpointErrors : EndpointThrows(error)
    /\ ExecFrame

GenerationReturns ==
    /\ GenerateAIImagesReturns
    /\ ExecFrame

ImageStored ==
    /\ \E r \in RandomSuffixes, putOk \in BOOLEAN : StoreGeneratedImage(r, putOk)
    /\ ExecFrame

HandlerReturns ==
    /\ FinishGenerateImages
    /\ ExecFrame

ExecTimePasses ==
    /\ exec.pc \notin {"idle", "done", "rejected"}
    /\ Tick
    /\ UNCHANGED <<hookVars, lastOp, studioVars, execVars>>

NextExec ==
    \/ CallerInvokes
    \/ ReferenceProcessed
    \/ GenerationStarts
    \/ EndpointAnswers
    \/ EndpointFails
    \/ GenerationReturns
    \/ ImageStored
    \/ HandlerReturns
    \/ ExecTimePasses

SpecExec == InitExec /\ [][NextExec]_vars

----------------------------------------------------------------------------
(* SpecBatch: one call of the batchUploadReferenceImages server function   *)

\* the images of a request: what useReferenceImages sends for a file, and
\* one whose fileData is no base64
BatchFiles ==
    { [fileName |-> "cat.png",  fileType |-> "image/png",  fileSize |-> 1024, fileData |-> "ok"],
      [fileName |-> "edge.jpg", fileType |-> "image/jpeg", fileSize |-> MaxFileSize,
       fileData |-> "ok"],
      [fileName |-> "big.png",  fileType |-> "image/png",  fileSize |-> MaxFileSize + 1,
       fileData |-> "ok"],
      [fileName |-> "scan.bmp", fileType |-> "image/bmp",  fileSize |-> 1024, fileData |-> "ok"],
      [fileName |-> "torn.png", fileType |-> "image/png",  fileSize |-> 1024,
       fileData |-> "bad"] }

BatchRequests ==
    UNION {[1..n -> BatchFiles] : n \in 0..MaxBatchFiles}
    \cup {[k \in 1..n |-> [fileName |-> "cat.png", fileType |-> "image/png",
                           fileSize |-> 1024, fileData |-> "ok"]] : n \in {MaxImages, MaxImages + 1}}

\* BatchImageUploadSchema.parse
BatchSchemaAccepts(images) == Len(images) <= 5

\* the key an image of a batch is stored under
BatchKey(imageData, index, t, r) ==
    "reference_image/" \o NumStr(t) \o "-batch-" \o NumStr(index) \o "-" \o r \o "." \o
    (IF AfterLastDot(imageData.fileName) = "" THEN "jpg" ELSE AfterLastDot(imageData.fileName))

\* batchUploadReferenceImages: input validator, then the handler up to the map
ReceiveBatchUpload(images) ==
    /\ upload.pc = "idle"
    /\ upload' = [pc |-> IF BatchSchemaAccepts(images) THEN "mapping" ELSE "rejected",
                  images |-> images, tasks |-> <<>>,
                  uploadedImages |-> <<>>, failedUploads |-> <<>>, success |-> FALSE]
    /\ UNCHANGED <<cloud, now>>

\* data.images.map(async ...): the callback of the next image runs up to its
\* put request; the callbacks start in index order before any put completes
StartImageUpload(r) ==
    /\ upload.pc = "mapping"
    /\ Len(upload.tasks) < Len(upload.images)
    /\ LET index == Len(upload.tasks)
           imageData == upload.images[index + 1]
           validation == validateImageFile([name |-> imageData.fileName,
                                            type |-> imageData.fileType,
                                            size |-> imageData.fileSize])
           r2Key == BatchKey(imageData, index, now, r)
           failed(error) ==
               [upload EXCEPT
                  !.tasks = Append(@, [state |-> "failed", r2Key |-> ""]),
                  !.failedUploads = Append(@, [fileName |-> imageData.fileName,
                                               error |-> error])]
       IN  IF ~validation.isValid
           THEN upload' = failed(validation.error)
           ELSE IF imageData.fileData = "bad"
           THEN upload' = failed("The string to be decoded is not correctly encoded.")
           ELSE upload' = [upload EXCEPT
                             !.tasks = Append(@, [state |-> "putting", r2Key |-> r2Key])]
    /\ UNCHANGED <<cloud, now>>

\* the handler reaches await Promise.all(uploadPromises)
AwaitUploads ==
    /\ upload.pc = "mapping"
    /\ Len(upload.tasks) = Len(upload.images)
    /\ upload' = [upload EXCEPT !.pc = "awaiting"]
    /\ UNCHANGED <<cloud, now>>

\* the put request of image k completes and its callback runs to its end
ImageUploadCompletes(k, putOk) ==
    /\ upload.pc = "awaiting"
    /\ k \in 1..Len(upload.tasks)
    /\ upload.tasks[k].state = "putting"
    /\ LET imageData == upload.images[k]
           r2Key == upload.tasks[k].r2Key
           uploadResult == putR2BinaryObject(r2Key, putOk)
       IN  /\ cloud' = CloudAfterPut(r2Key, putOk)
           /\ IF ~uploadResult.success
              THEN upload' = [upload EXCEPT
                                !.tasks[k].state = "putFailed",
                                !.failedUploads =
                                    Append(@, [fileName |-> imageData.fileName,
                                               error |-> "Failed to upload to R2: " \o
                                                         uploadResult.error])]
              ELSE upload' = [upload EXCEPT
                                !.tasks[k].state = "stored",
                                !.uploadedImages =
                                    Append(@, [filename |-> imageData.fileName,
                                               size |-> imageData.fileSize,
                                               r2Key |-> r2Key,
                                               type |-> "reference"])]
    /\ UNCHANGED now

\* Promise.all resolves and the handler returns
BatchUploadReturns ==
    /\ upload.pc = "awaiting"
    /\ \A k \in 1..Len(upload.tasks) : upload.tasks[k].state # "putting"
    /\ upload' = [upload EXCEPT !.pc = "done", !.success = TRUE]
    /\ UNCHANGED <<cloud, now>>

BatchFrame == UNCHANGED <<hookVars, lastOp, studioVars, exec, resolver, analytics, refHook>>

InitBatch ==
    /\ imageSlots = <<>>
    /\ mutations = EmptyBag
    /\ now = 0
    /\ lastOp = Op("init", 0, {})
    /\ batches = 0
    /\ events = 0
    /\ delivered = <<>>
    /\ StudioInit
    /\ ExecIdle

UploaderInvokes ==
    /\ upload.pc = "idle"
    /\ \E images \in BatchRequests : ReceiveBatchUpload(images)
    /\ BatchFrame

UploadStarts ==
    /\ \E r \in RandomSuffixes : StartImageUpload(r)
    /\ BatchFrame

UploadsAwaited ==
    /\ AwaitUploads
    /\ BatchFrame

UploadCompletes ==
    /\ \E k \in 1..MaxImages, putOk \in BOOLEAN : ImageUploadCompletes(k, putOk)
    /\ BatchFrame

BatchReturns ==
    /\ BatchUploadReturns
    /\ BatchFrame

BatchTimePasses ==
    /\ upload.pc \in {"mapping", "awaiting"}
    /\ Tick
    /\ UNCHANGED <<hookVars, lastOp, studioVars, execVars>>

NextBatch ==
    \/ UploaderInvokes
    \/ UploadStarts
    \/ UploadsAwaited
    \/ UploadCompletes
    \/ BatchReturns
    \/ BatchTimePasses

SpecBatch == InitBatch /\ [][NextBatch]_vars

----------------------------------------------------------------------------
(* SpecRefs: the studio page's reference images, uploaded on every change   *)
(* of the file selection                                                    *)

\* file lists the upload control hands to handleFilesChange
RefSelections ==
    {<<>>,
     <<[file |-> [name |-> "scan.bmp"], isValid |-> FALSE]>>,
     <<[file |-> [name |-> "scan.bmp"], isValid |-> FALSE],
       [file |-> [name |-> "cat.png"], isValid |-> TRUE]>>,
     <<[file |-> [name |-> "edge.jpg"], isValid |-> TRUE]>>}

\* the answers batchUploadReferenceImages gives to an upload of files
UploadResponsesTo(files) ==
    {[success |-> TRUE,
      data |-> [uploadedImages |->
                  [i \in DOMAIN files |->
                      [filename |-> files[i].name,
                       r2Key |-> BatchKey([fileName |-> files[i].name], i - 1, now, r),
                       type |-> "reference"]]],
      error |-> NoValue] : r \in RandomSuffixes}
    \cup {[success |-> FALSE, data |-> [uploadedImages |-> <<>>],
           error |-> "Failed to upload reference images"]}

\* uploadReferenceImages(uploadedFiles)
UploadReferenceImages(uploadedFiles) ==
    LET validFiles == ValidFiles(uploadedFiles)
    IN  IF Len(validFiles) = 0
        THEN refHook' = [refHook EXCEPT !.uploadedReferenceImages = <<>>,
                                        !.referenceImageKeys = <<>>,
                                        !.latest = 0,
                                        !.latestAnswered = TRUE]
        ELSE /\ refHook.seq < MaxUploads
             /\ refHook' = [refHook EXCEPT
                              !.inflight = @ \cup {[seq |-> refHook.seq + 1,
                                                    files |-> validFiles]},
                              !.seq = @ + 1,
                              !.latest = refHook.seq + 1,
                              !.latestAnswered = FALSE]

\* uploadMutation.onSuccess(response), for the upload m
UploadOnSuccess(m, response) ==
    /\ m \in refHook.inflight
    /\ refHook' =
          IF response.success
          THEN [refHook EXCEPT
                  !.uploadedReferenceImages = response.data.uploadedImages,
                  !.referenceImageKeys =
                      [i \in DOMAIN response.data.uploadedImages |->
                          response.data.uploadedImages[i].r2Key],
                  !.inflight = @ \ {m},
                  !.latestAnswered = @ \/ m.seq = refHook.latest]
          ELSE [refHook EXCEPT !.inflight = @ \ {m}]

\* uploadMutation.onError(error), for the upload m
UploadOnError(m) ==
    /\ m \in refHook.inflight
    /\ refHook' = [refHook EXCEPT !.inflight = @ \ {m}]

\* handleFilesChange of the studio page
PageFilesChange(uploadedFiles) ==
    /\ form' = [form EXCEPT !.referenceImages = uploadedFiles]
    /\ UploadReferenceImages(uploadedFiles)

RefsFrame ==
    UNCHANGED <<hookVars, now, lastOp, generations, generatedImages, referenceImages,
                genMutations, genSeq, requested, exec, cloud, upload, resolver, analytics>>

InitRefs ==
    /\ imageSlots = <<>>
    /\ mutations = EmptyBag
    /\ now = 0
    /\ lastOp = Op("init", 0, {})
    /\ batches = 0
    /\ events = 0
    /\ delivered = <<>>
    /\ StudioInit
    /\ ExecIdle

UserChangesSelection ==
    /\ \E uploadedFiles \in RefSelections : PageFilesChange(uploadedFiles)
    /\ RefsFrame

UploadAnswered ==
    /\ \E m \in refHook.inflight :
          \E response \in UploadResponsesTo(m.files) : UploadOnSuccess(m, response)
    /\ UNCHANGED form
    /\ RefsFrame

UploadUnreachable ==
    /\ \E m \in refHook.inflight : UploadOnError(m)
    /\ UNCHANGED form
    /\ RefsFrame

NextRefs ==
    \/ UserChangesSelection
    \/ UploadAnswered
    \/ UploadUnreachable

SpecRefs == InitRefs /\ [][NextRefs]_vars

----------------------------------------------------------------------------
(* SpecTrack: concurrent calls of trackServerExecution on one day           *)

\* what ANALYTICS_CACHE holds under today's key before the calls: nothing, or a count
InitialCounts == {NoValue, "9"}

TrackFailure == [success |-> FALSE, count |-> 0]

\* a call is received: today and cacheKey are computed
ReceiveTrackExecution ==
    /\ Len(analytics.calls) < MaxTrackCalls
    /\ analytics' = [analytics EXCEPT
                       !.calls = Append(@, [pc |-> "get", newCount |-> 0,
                                            result |-> TrackFailure])]

\* await env.ANALYTICS_CACHE.get(cacheKey) of call c returns, newCount is computed
KvGetReturns(c, getOk) ==
    /\ analytics.calls[c].pc = "get"
    /\ LET currentCount == analytics.kv
           newCount == IF currentCount # NoValue /\ currentCount # ""
                       THEN ParseInt(currentCount) + 1
                       ELSE 1
       IN  analytics' = IF getOk
                        THEN [analytics EXCEPT !.calls[c].pc = "put",
                                               !.calls[c].newCount = newCount]
                        ELSE [analytics EXCEPT !.calls[c].pc = "done"]

\* await env.ANALYTICS_CACHE.put(cacheKey, newCount.toString()) of call c returns
KvPutReturns(c, putOk) ==
    /\ analytics.calls[c].pc = "put"
    /\ analytics' =
          IF putOk
          THEN [analytics EXCEPT
                  !.kv = NumStr(analytics.calls[c].newCount),
                  !.calls[c].pc = "done",
                  !.calls[c].result = [success |-> TRUE,
                                       count |-> analytics.calls[c].newCount]]
          ELSE [analytics EXCEPT !.calls[c].pc = "done"]

TrackFrame == UNCHANGED <<hookVars, now, lastOp, studioVars, exec, cloud, upload, resolver, refHook>>

InitTrack ==
    /\ imageSlots = <<>>
    /\ mutations = EmptyBag
    /\ now = 0
    /\ lastOp = Op("init", 0, {})
    /\ batches = 0
    /\ events = 0
    /\ delivered = <<>>
    /\ StudioInit
    /\ exec = [pc |-> "idle"]
    /\ cloud = [bucket |-> {}, puts |-> 0, requests |-> 0]
    /\ upload = [pc |-> "idle"]
    /\ resolver = [cache |-> <<>>, mounts |-> 0, log |-> <<>>]
    /\ RefHookInit
    /\ \E stored \in InitialCounts :
          analytics = [initial |-> stored, kv |-> stored, calls |-> <<>>]

TrackCalled ==
    /\ ReceiveTrackExecution
    /\ TrackFrame

CounterRead ==
    /\ \E c \in DOMAIN analytics.calls, getOk \in BOOLEAN : KvGetReturns(c, getOk)
    /\ TrackFrame

CounterWritten ==
    /\ \E c \in DOMAIN analytics.calls, putOk \in BOOLEAN : KvPutReturns(c, putOk)
    /\ TrackFrame

NextTrack ==
    \/ TrackCalled
    \/ CounterRead
    \/ CounterWritten

SpecTrack == InitTrack /\ [][NextTrack]_vars

----------------------------------------------------------------------------
(* SpecResolve: getObjectUrl behind the query caches of useR2Images and     *)
(* R2ImagePreview                                                           *)

\* the objects of the bucket: key, reported size and stored content type
StoredObjects ==
    { [key |-> "generations/0-0-k3x9ab.png", size |-> 1024, contentType |-> "image/png"],
      [key |-> "reference_image/0-q7m2zd.JPG", size |-> MaxFileSize, contentType |-> NoValue],
      [key |-> "generations/0-1-k3x9ab.png", size |-> MaxFileSize + 1,
       contentType |-> "image/png"],
      [key |-> "notes.txt", size |-> MaxFileSize + 1, contentType |-> NoValue] }

StoredKeys == {o.key : o \in StoredObjects}

\* keys a component may ask for: the stored ones and one that is not there
RequestedKeys == StoredKeys \cup {"generations/0-2-gone.png"}

ObjectAt(key) == CHOOSE o \in StoredObjects : o.key = key

\* one character, lower-cased
LowerChar(c) ==
    LET upper == "ABCDEFGHIJKLMNOPQRSTUVWXYZ"
        lower == "abcdefghijklmnopqrstuvwxyz"
    IN  IF \E i \in 1..26 : SubSeq(upper, i, i) = c
        THEN LET i == CHOOSE i \in 1..26 : SubSeq(upper, i, i) = c IN SubSeq(lower, i, i)
        ELSE c

\* String.prototype.toLowerCase
RECURSIVE Lower(_)
Lower(s) == IF s = "" THEN "" ELSE LowerChar(SubSeq(s, 1, 1)) \o Lower(SubSeq(s, 2, Len(s)))

\* /\.(jpg|jpeg|png|gif|webp)$/i.test(key)
IsImageKey(key) ==
    /\ Includes(key, ".")
    /\ Lower(AfterLastDot(key)) \in {"jpg", "jpeg", "png", "gif", "webp"}

\* the size test with the limit itself counted as too large
TooLargeForPreview_AtLimit(size) == size >= 5 * 1024 * 1024
\* object.size > 5 * 1024 * 1024
TooLargeForPreview(size) == size > 5 * 1024 * 1024

\* the handler of getObjectUrl; bytesRead tells whether the body was read
GetObjectUrl(key, bucket, getOk) ==
    IF ~getOk
    THEN [success |-> FALSE, error |-> "Error: R2 get failed", url |-> NoValue,
          content |-> NoValue, bytesRead |-> FALSE]
    ELSE IF key \notin bucket
    THEN [success |-> FALSE, error |-> "Object not found", url |-> NoValue,
          content |-> NoValue, bytesRead |-> FALSE]
    ELSE IF IsImageKey(key)
    THEN IF TooLargeForPreview(ObjectAt(key).size)
         THEN [success |-> FALSE, error |-> "Image too large for preview (>5MB)",
               url |-> NoValue, content |-> NoValue, bytesRead |-> FALSE]
         ELSE [success |-> TRUE, error |-> NoValue,
               url |-> "data:" \o (IF ObjectAt(key).contentType = NoValue THEN "image/jpeg"
                                   ELSE ObjectAt(key).contentType) \o ";base64,AAAA",
               content |-> NoValue, bytesRead |-> TRUE]
    ELSE [success |-> TRUE, error |-> NoValue, url |-> NoValue,
          content |-> "text of " \o key, bytesRead |-> TRUE]

\* queryKey of useR2Images: ['r2-image', image.r2Key]
GalleryQueryKey(key) == <<"r2-image", key>>
\* queryKey of R2ImagePreview: ["r2-image", bucket, objectKey]
PreviewQueryKey(bucket, key) == <<"r2-image", bucket, key>>

\* the storage key a query asks getObjectUrl for
StorageKeyOf(queryKey) == queryKey[Len(queryKey)]

\* the time of the latest answer the cache holds for the storage key, under
\* whatever query key it was asked; NoTime if there is none
LastResolved(key) ==
    LET times == {resolver.cache[q].dataUpdatedAt :
                     q \in {r \in DOMAIN resolver.cache : StorageKeyOf(r) = key}}
    IN  IF times = {} THEN NoTime ELSE CHOOSE t \in times : \A u \in times : u <= t

\* one more call of the query function
StartFetch(log, queryKey) ==
    Append(log, [queryKey |-> queryKey, start |-> now,
                 prior |-> LastResolved(StorageKeyOf(queryKey))])

\* the query has data that is still fresh
IsFresh(queryKey) ==
    /\ queryKey \in DOMAIN resolver.cache
    /\ resolver.cache[queryKey].status = "success"
    /\ now - resolver.cache[queryKey].dataUpdatedAt < StaleTime

IsFetching(queryKey) ==
    /\ queryKey \in DOMAIN resolver.cache
    /\ resolver.cache[queryKey].status = "fetching"

\* the cache entry of a query that starts fetching: data it has is kept
FetchingEntry(queryKey) ==
    IF queryKey \in DOMAIN resolver.cache
    THEN [resolver.cache[queryKey] EXCEPT !.status = "fetching", !.failureCount = 0]
    ELSE [status |-> "fetching", data |-> NoValue, getOk |-> TRUE,
          dataUpdatedAt |-> NoTime, failureCount |-> 0]

CacheWith(queryKey, entry) ==
    [q \in DOMAIN resolver.cache \cup {queryKey} |->
        IF q = queryKey THEN entry ELSE resolver.cache[q]]

\* a component that uses the query mounts (enabled: the key is not empty)
MountObserver(queryKey) ==
    /\ StorageKeyOf(queryKey) # ""
    /\ IF IsFresh(queryKey) \/ IsFetching(queryKey)
       THEN resolver' = [resolver EXCEPT !.mounts = @ + 1]
       ELSE resolver' =
               [resolver EXCEPT
                  !.mounts = @ + 1,
                  !.log = StartFetch(@, queryKey),
                  !.cache = CacheWith(queryKey, FetchingEntry(queryKey))]
    /\ UNCHANGED <<cloud, now>>

\* the getObjectUrl call of the query returns
FetchResolves(queryKey, getOk) ==
    /\ IsFetching(queryKey)
    /\ resolver' =
          [resolver EXCEPT
             !.cache[queryKey] =
                 [@ EXCEPT !.status = "success",
                           !.data = GetObjectUrl(StorageKeyOf(queryKey), cloud.bucket, getOk),
                           !.getOk = getOk,
                           !.dataUpdatedAt = now,
                           !.failureCount = 0]]
    /\ UNCHANGED <<cloud, now>>

\* the getObjectUrl call of the query rejects: retry: 2 calls it again
FetchRejects(queryKey) ==
    /\ IsFetching(queryKey)
    /\ IF resolver.cache[queryKey].failureCount < QueryRetry
       THEN resolver' =
               [resolver EXCEPT
                  !.log = StartFetch(@, queryKey),
                  !.cache[queryKey].failureCount = @ + 1]
       ELSE resolver' =
               [resolver EXCEPT
                  !.cache[queryKey].status = "error",
                  !.cache[queryKey].failureCount = @ + 1]
    /\ UNCHANGED <<cloud, now>>

\* useR2Images: the image of a query with the url to display
ImageWithUrl(queryKey) ==
    LET queryResult == resolver.cache[queryKey]
        isLoading == queryResult.status = "fetching" /\ queryResult.dataUpdatedAt = NoTime
    IN  IF isLoading
        THEN [url |-> "", isLoading |-> TRUE, hasError |-> FALSE]
        ELSE IF \/ queryResult.status = "error"
                \/ ~queryResult.data.success
                \/ ~StartsWith(queryResult.data.url, "data:image")
        THEN [url |-> "", isLoading |-> FALSE, hasError |-> TRUE]
        ELSE [url |-> queryResult.data.url, isLoading |-> FALSE, hasError |-> FALSE]

\* ImageCard: the img element when there is a url, else the "Loading..." spinner
ImageCard(image) == IF image.url # "" THEN "image" ELSE "loading"

ResolveFrame == UNCHANGED <<hookVars, lastOp, studioVars, exec, upload, analytics, refHook>>

InitResolve ==
    /\ imageSlots = <<>>
    /\ mutations = EmptyBag
    /\ now = 0
    /\ lastOp = Op("init", 0, {})
    /\ batches = 0
    /\ events = 0
    /\ delivered = <<>>
    /\ StudioInit
    /\ exec = [pc |-> "idle"]
    /\ upload = [pc |-> "idle"]
    /\ cloud = [bucket |-> StoredKeys, puts |-> 0, requests |-> 0]
    /\ resolver = [cache |-> <<>>, mounts |-> 0, log |-> <<>>]
    /\ analytics = [initial |-> NoValue, kv |-> NoValue, calls |-> <<>>]
    /\ RefHookInit

GalleryMounts ==
    /\ resolver.mounts < MaxMounts
    /\ \E key \in RequestedKeys : MountObserver(GalleryQueryKey(key))
    /\ ResolveFrame

PreviewMounts ==
    /\ resolver.mounts < MaxMounts
    /\ \E key \in RequestedKeys : MountObserver(PreviewQueryKey("IMAGE_STORAGE", key))
    /\ ResolveFrame

ResolverAnswers ==
    /\ \E queryKey \in DOMAIN resolver.cache, getOk \in BOOLEAN :
          FetchResolves(queryKey, getOk)
    /\ ResolveFrame

ResolverUnreachable ==
    /\ \E queryKey \in DOMAIN resolver.cache : FetchRejects(queryKey)
    /\ ResolveFrame

\* the cache window goes by
StaleWindowPasses ==
    /\ now < StaleTime
    /\ now' = now + StaleTime
    /\ UNCHANGED <<hookVars, lastOp, studioVars, execVars>>

NextResolve ==
    \/ GalleryMounts
    \/ PreviewMounts
    \/ ResolverAnswers
    \/ ResolverUnreachable
    \/ StaleWindowPasses

SpecResolve == InitResolve /\ [][NextResolve]_vars

----------------------------------------------------------------------------
(* Properties of the slot orchestrator, checked under Spec *)

Terminal == {"completed", "error"}

C2_OutOfRangeCreatesNothing ==
    [][\A n \in (-1..MaxImageCount) \ (1..MaxImages), p \in Prompts, r \in 1..NRand :
          StartBatchGeneration(n, p, r) =>
             /\ imageSlots' = imageSlots
             /\ mutations' = mutations
      ]_vars

\* C3: in every reachable state a slot in a terminal status carries exactly
\* one of image and error: a completed slot has an image and no error, an
\* error slot has an error and no image.
C3_ImageErrorExclusive ==
    \A i \in DOMAIN imageSlots :
       LET s == imageSlots[i]
       IN /\ s.status = "completed" => (s.image # NoValue /\ s.error = NoValue)
          /\ s.status = "error" => (s.error # NoValue /\ s.image = NoValue)

\* C4: once a slot is completed or error, an Executor completion or failure
\* does not change its status.
C4_TerminalStatusIsFinal ==
    [][lastOp'.op \in {"onSuccess", "onError"} =>
          \A i \in DOMAIN imageSlots :
             (i \in DOMAIN imageSlots' /\ imageSlots[i].status \in Terminal) =>
                imageSlots'[i].status = imageSlots[i].status
      ]_vars

\* C5: cancelGeneration(slotId) turns a generating slot with that id into
\* error "Cancelled by user" and changes nothing else; when no slot with that
\* id is generating (completed, error, unknown id) the collection is unchanged.
\* The request in flight is not touched.
C5_CancelOnlyGenerating ==
    [][\A id \in SlotIds \cup {UnknownId} :
          CancelGeneration(id) =>
             /\ Len(imageSlots') = Len(imageSlots)
             /\ \A i \in DOMAIN imageSlots :
                   IF imageSlots[i].id = id /\ imageSlots[i].status = "generating"
                   THEN imageSlots'[i] =
                           [imageSlots[i] EXCEPT !.status = "error",
                                                  !.error = "Cancelled by user"]
                   ELSE imageSlots'[i] = imageSlots[i]
             /\ ("generating" \notin StatusesOf(id)) => imageSlots' = imageSlots
             /\ mutations' = mutations
      ]_vars

\* cancelGeneration was just called on a slot that an earlier call had
\* already cancelled
C5_Witness ==
    /\ lastOp.op = "cancelGeneration"
    /\ lastOp.before = {"error"}
    /\ \E i \in DOMAIN imageSlots :
          /\ imageSlots[i].status = "error"
          /\ imageSlots[i].error = "Cancelled by user"
          /\ BagIn(imageSlots[i].id, mutations)

----------------------------------------------------------------------------
(* Properties checked under SpecCommute *)

\* the {id, status, image|error} triples of a collection
Triples(slots) ==
    {<<slots[i].id, slots[i].status,
       IF slots[i].status = "completed" THEN slots[i].image ELSE slots[i].error>> :
          i \in DOMAIN slots}

\* the results that have arrived, applied in slot order instead of arrival
\* order, starting at slot k
RECURSIVE InSlotOrder(_, _, _)
InSlotOrder(slots, arrived, k) ==
    IF k > Len(slots) THEN slots
    ELSE LET js == {j \in DOMAIN arrived : arrived[j].id = slots[k].id}
         IN IF js = {} THEN InSlotOrder(slots, arrived, k + 1)
            ELSE LET j == CHOOSE x \in js : TRUE
                 IN InSlotOrder(Settle(slots, slots[k].id, arrived[j]), arrived, k + 1)

\* C6: whatever the order in which the results of a batch arrive, the slot
\* triples are those obtained by applying the same results in slot order.
C6_CompletionCommutes ==
    Triples(imageSlots)
       = Triples(InSlotOrder(FirstBatch(imageSlots[1].prompt, Len(imageSlots)),
                             delivered, 1))

\* all results of a batch of MaxPerm slots have arrived, last slot first,
\* one a success and one a failure
C6_Witness ==
    /\ Len(imageSlots) = MaxPerm
    /\ mutations = EmptyBag
    /\ Len(delivered) = MaxPerm
    /\ \A j \in 1..MaxPerm : delivered[j].id = imageSlots[MaxPerm + 1 - j].id
    /\ \E i, j \in DOMAIN imageSlots :
          imageSlots[i].status = "completed" /\ imageSlots[j].status = "error"

----------------------------------------------------------------------------
(* Properties checked under SpecStudio *)

\* C8: retrying a generation that is in error resets it to generating with a
\* startTime strictly greater than its previous one, clears its error and its
\* images, and dispatches a request for the same id.
C8_RetryResetsGeneration ==
    [][\A id \in GenerationIds :
          HandleRetryGeneration(id) =>
             /\ \A i \in DOMAIN generations :
                   (generations[i].id = id /\ generations[i].status = "error") =>
                      /\ generations'[i].status = "generating"
                      /\ generations'[i].startTime > generations[i].startTime
                      /\ generations'[i].error = NoValue
                      /\ generations'[i].images = <<>>
             /\ \E m \in genMutations' \ genMutations : m.generationId = id
      ]_vars

----------------------------------------------------------------------------
(* Properties of generateImages, checked under SpecExec *)

\* the credential of the call in hand begins with "AIza"
KeyHasPrefix ==
    /\ Len(exec.data.apiKey.chars) >= 4
    /\ SubSeq(exec.data.apiKey.chars, 1, 4) = "AIza"

\* the credential of the call in hand has a character that is not a blank
KeyNotBlank ==
    \E i \in 1..Len(exec.data.apiKey.chars) : SubSeq(exec.data.apiKey.chars, i, i) # " "

\* C9: validateGoogleApiKey accepts a credential exactly when it is 39
\* characters long and begins with "AIza"; a credential with the prefix and
\* another length fails with the length message, and a 39-character credential
\* without the prefix fails with another message (the prefix message, or the
\* "required" message when it is blank).
C9_KeyAcceptedIffLengthAndPrefix ==
    exec.pc \notin {"idle", "rejected"} =>
        LET key == exec.data.apiKey.chars
            v == exec.keyValidation
        IN  /\ v.isValid <=> (Len(key) = 39 /\ KeyHasPrefix)
            /\ (KeyHasPrefix /\ Len(key) # 39) =>
                   /\ ~v.isValid
                   /\ v.error = "Google API key must be 39 characters long"
            /\ (Len(key) = 39 /\ ~KeyHasPrefix) =>
                   /\ ~v.isValid
                   /\ v.error = IF KeyNotBlank
                                THEN "Google API key must start with \"AIza\""
                                ELSE "API key is required"
                   /\ v.error # "Google API key must be 39 characters long"

\* a 39-character credential without the prefix has been refused for its prefix
C9_Witness ==
    /\ exec.pc = "done"
    /\ Len(exec.data.apiKey.chars) = 39
    /\ ~KeyHasPrefix
    /\ ~exec.keyValidation.isValid
    /\ exec.response.error = "Google API key must start with \"AIza\""

\* one of the pre-flight checks of the call in hand fails: the credential
\* format, the number of references, or the size or type of one reference
PreflightFails ==
    LET refs == exec.data.referenceImages
    IN  \/ ~(Len(exec.data.apiKey.chars) = 39 /\ KeyHasPrefix)
        \/ Len(refs) > 5
        \/ \E k \in 1..Len(refs) :
              \/ refs[k].size > MaxFileSize
              \/ refs[k].type \notin {"image/jpeg", "image/png", "image/webp", "image/gif"}

\* C10: when a pre-flight check of a generation call fails, the call makes no
\* request to the hosted endpoint and no write to the blob store, also for the
\* references that precede the offending one.
C10_PreflightFailureMeansNoNetwork ==
    (exec.pc # "idle" /\ PreflightFails) =>
        /\ cloud.requests = 0
        /\ cloud.puts = 0
        /\ cloud.bucket = {}

\* C11: one call issues exactly one request to the hosted endpoint: at no
\* point of a call has it made more than one.
C11_OneRequestPerCall ==
    exec.pc \notin {"idle", "rejected"} => cloud.requests <= 1

\* the object keys under generations/
GenerationKeys == {key \in cloud.bucket : SubSeq(key, 1, 12) = "generations/"}

\* every request of the call in hand was answered and no answer carried an
\* image-typed part with a byte payload
NoImageReturned ==
    /\ exec.pc \in {"store", "done"}
    /\ exec.j = exec.data.count
    /\ ~exec.imagePartSeen

\* C12: when the endpoint returns no image-typed part with a byte payload, the
\* call does not throw: it returns a failure result with an error message, and
\* it writes nothing under generations/ (the only writes are the reference
\* uploads made before).
C12_NoImageIsSoftFailure ==
    NoImageReturned =>
        /\ GenerationKeys = {}
        /\ cloud.puts = Len(exec.data.referenceImages)
        /\ exec.generatedImages = <<>>
        /\ exec.pc = "done" =>
              /\ ~exec.response.success
              /\ exec.response.error = "No images were successfully generated and stored"
              /\ exec.response.images = <<>>

\* a call with one stored reference whose two requests were both answered
\* without an image part has returned the failure result
C12_Witness ==
    /\ exec.pc = "done"
    /\ NoImageReturned
    /\ exec.data.count = 2
    /\ Len(exec.data.referenceImages) = 1
    /\ Cardinality(cloud.bucket) = 1
    /\ cloud.requests = 2
    /\ ~exec.response.success

----------------------------------------------------------------------------
(* Properties of batchUploadReferenceImages, checked under SpecBatch *)

\* the number of positions of a sequence that satisfy the test
CountWhere(seq, Test(_)) == Cardinality({k \in 1..Len(seq) : Test(seq[k])})

\* input k of the batch in hand passes validation and decodes
BatchInputValid(k) ==
    /\ upload.images[k].fileSize <= MaxFileSize
    /\ upload.images[k].fileType \in {"image/jpeg", "image/png", "image/webp", "image/gif"}
    /\ upload.images[k].fileData = "ok"

\* C13: when a batch upload of up to 5 files returns, every input file is in
\* exactly one of uploaded and failed; a valid file whose write succeeded is
\* uploaded under its key, an oversized file is failed with the size message,
\* and a write was attempted for every valid file whatever became of the
\* others, in every order of completion.
C13_BatchUploadPartitionsInputs ==
    upload.pc = "done" =>
        /\ upload.success
        /\ Len(upload.uploadedImages) + Len(upload.failedUploads) = Len(upload.images)
        /\ \A f \in BatchFiles :
              LET IsInput(x) == x.fileName = f.fileName
                  IsUploaded(x) == x.filename = f.fileName
              IN  CountWhere(upload.images, IsInput)
                     = CountWhere(upload.uploadedImages, IsUploaded)
                       + CountWhere(upload.failedUploads, IsInput)
        /\ cloud.puts = Cardinality({k \in 1..Len(upload.images) : BatchInputValid(k)})
        /\ \A k \in 1..Len(upload.images) :
              /\ BatchInputValid(k) <=> upload.tasks[k].state \in {"stored", "putFailed"}
              /\ upload.tasks[k].state = "stored" =>
                    /\ upload.tasks[k].r2Key \in cloud.bucket
                    /\ \E u \in 1..Len(upload.uploadedImages) :
                          /\ upload.uploadedImages[u].r2Key = upload.tasks[k].r2Key
                          /\ upload.uploadedImages[u].filename = upload.images[k].fileName
              /\ upload.images[k].fileSize > MaxFileSize =>
                    \E x \in 1..Len(upload.failedUploads) :
                       /\ upload.failedUploads[x].fileName = upload.images[k].fileName
                       /\ Includes(upload.failedUploads[x].error,
                                   "exceeds maximum allowed size of 5MB")

\* a batch of a valid, an oversized and a valid file has returned: the two
\* valid files uploaded, the later one first, and the oversized one failed
C13_Witness ==
    /\ upload.pc = "done"
    /\ Len(upload.images) = 3
    /\ upload.images[2].fileSize > MaxFileSize
    /\ Len(upload.uploadedImages) = 2
    /\ Len(upload.failedUploads) = 1
    /\ upload.uploadedImages[1].r2Key = upload.tasks[3].r2Key
    /\ upload.uploadedImages[2].r2Key = upload.tasks[1].r2Key

----------------------------------------------------------------------------
(* Properties of the storage keys, checked under SpecExec *)

\* C14: storage keys are collision-free: no write of a call overwrites an
\* object written before, so the store holds one object per successful write,
\* whatever timestamps and random suffixes are drawn.
C14_KeysCollisionFree ==
    exec.pc \notin {"idle", "rejected"} =>
        Cardinality(cloud.bucket)
           = Len(exec.processedReferenceImages) + Len(exec.generatedImages)


\* the answers getObjectUrl gave and the cache still holds
Resolved == {q \in DOMAIN resolver.cache :
                resolver.cache[q].status = "success" /\ resolver.cache[q].getOk}

\* C15: getObjectUrl answers an image object of more than 5 MB with the
\* "too large" error, no URL and without reading its bytes; an image object
\* of at most 5 MB, the limit included, with a data URL; a key that is not in
\* the bucket with the not-found error and no URL.
C15_ResolverAnswersBySize ==
    \A q \in Resolved :
        LET key == StorageKeyOf(q)
            answer == resolver.cache[q].data
        IN  /\ key \notin cloud.bucket =>
                  /\ ~answer.success
                  /\ answer.error = "Object not found"
                  /\ answer.url = NoValue
            /\ key \in cloud.bucket /\ IsImageKey(key) /\ ObjectAt(key).size > MaxFileSize =>
                  /\ ~answer.success
                  /\ answer.error = "Image too large for preview (>5MB)"
                  /\ answer.url = NoValue
                  /\ ~answer.bytesRead
            /\ key \in cloud.bucket /\ IsImageKey(key) /\ ObjectAt(key).size <= MaxFileSize =>
                  /\ answer.success
                  /\ StartsWith(answer.url, "data:image/")
                  /\ answer.error = NoValue

\* an object of exactly 5 MB resolved to a data URL while one of a byte more
\* was refused
C15_Witness ==
    /\ GalleryQueryKey("reference_image/0-q7m2zd.JPG") \in Resolved
    /\ resolver.cache[GalleryQueryKey("reference_image/0-q7m2zd.JPG")].data.url
          = "data:image/jpeg;base64,AAAA"
    /\ GalleryQueryKey("generations/0-1-k3x9ab.png") \in Resolved
    /\ resolver.cache[GalleryQueryKey("generations/0-1-k3x9ab.png")].data.error
          = "Image too large for preview (>5MB)"

\* C16: once a storage key has an answer, no further getObjectUrl call for the
\* same key starts within the 30-minute cache window, whichever component asks.
C16_OneFetchPerKeyPerWindow ==
    \A i \in 1..Len(resolver.log) :
        resolver.log[i].prior # NoTime =>
            resolver.log[i].start - resolver.log[i].prior >= StaleTime

\* C17: a blob fetch is attempted at most once per user action: getObjectUrl
\* has been called no more often than components were mounted.
C17_OneAttemptPerUserAction == Len(resolver.log) <= resolver.mounts

\* the request a retry has just sent
RetriedRequests == genMutations' \ genMutations

\* C18: a retry sends the prompt, image count, API credential and reference
\* images that handleGenerate sent for that generation, whatever the form holds
\* by then.
C18_RetryCarriesOriginalRequest ==
    [][UserRetriesGeneration =>
          \A m \in RetriedRequests :
              LET original == requested[m.generationId]
              IN  /\ m.prompt = original.prompt
                  /\ m.count = original.count
                  /\ m.apiKey = original.apiKey
                  /\ m.referenceImages = original.referenceImages]_vars

\* the page shows reference images that are in the blob store
UploadedReferences ==
    /\ referenceImages # <<>>
    /\ \A i \in DOMAIN referenceImages : referenceImages[i].r2Key # ""

\* C20: the outcome of a generation, a response or a rejection, leaves the
\* uploaded reference images of the page and their keys exactly as they were.
C20_OutcomesLeaveReferencesAlone ==
    [][(ServerResolves \/ ServerRejects) /\ UploadedReferences =>
          referenceImages' = referenceImages]_vars

\* C19: no two slots of the collection share an id, so a completion that
\* carries a slot id finds at most one slot.
C19_SlotIdsUnique ==
    \A i, j \in DOMAIN imageSlots : imageSlots[i].id = imageSlots[j].id => i = j

\* C21: a call that fails although the model returned an image (the write of
\* the generated image failed) reports something else than the message of a
\* call whose model returned no image.
C21_StoreFailureIsNotNoImage ==
    exec.pc = "done" /\ exec.imagePartSeen /\ ~exec.response.success =>
        exec.response.error # "No images were successfully generated and stored"

ThrownHas(sub) ==
    exec.thrown.isError /\ Includes(exec.thrown.message, sub)

\* C23: a provider exception surfaces from generateImages as the quota message
\* if its message contains "quota", else as the invalid-key message if it
\* contains "authentication", else as the rate-limit message if it contains
\* "rate limit", else as the generic failure message.
C23_ProviderErrorClassified ==
    exec.pc = "done" /\ exec.threw =>
        /\ ~exec.response.success
        /\ exec.response.error =
              IF ThrownHas("quota")
              THEN "API quota exceeded. Please check your Google API usage limits."
              ELSE IF ThrownHas("authentication")
              THEN "Invalid API key. Please check your Google API key."
              ELSE IF ThrownHas("rate limit")
              THEN "Rate limit exceeded. Please wait a moment before trying again."
              ELSE "Failed to generate images. Please try again."

\* an exception that matches all three substrings surfaced as quota exceeded
C23_Witness ==
    /\ exec.pc = "done"
    /\ exec.threw
    /\ ThrownHas("quota") /\ ThrownHas("authentication") /\ ThrownHas("rate limit")
    /\ exec.response.error = "API quota exceeded. Please check your Google API usage limits."

\* the Resolver has turned the query down: the call failed for good, or its
\* answer is a refusal
ResolverRejected(queryKey) ==
    \/ resolver.cache[queryKey].status = "error"
    \/ /\ resolver.cache[queryKey].status = "success"
       /\ ~resolver.cache[queryKey].data.success

\* C24: an image whose Resolver request was rejected is not displayed as
\* still loading.
C24_RejectionIsNotLoading ==
    \A key \in RequestedKeys :
        /\ GalleryQueryKey(key) \in DOMAIN resolver.cache
        /\ ResolverRejected(GalleryQueryKey(key))
        => ImageCard(ImageWithUrl(GalleryQueryKey(key))) # "loading"

\* C25: with every request answered, whenever a slot is pending or generating
\* a moment follows at which hasActiveGenerations is false, that is, at which
\* every slot, that one included, is completed or error.
C25_ActiveGenerationsEnd == hasActiveGenerations ~> ~hasActiveGenerations

\* a batch of five has ended, one slot through a rejected request
C25_Witness ==
    /\ Len(imageSlots) = MaxImages
    /\ ~hasActiveGenerations
    /\ mutations = EmptyBag
    /\ \E i \in DOMAIN imageSlots : imageSlots[i].error = "Failed to read file"
    /\ \E i \in DOMAIN imageSlots : imageSlots[i].status = "completed"

\* the pending and generating slots
ActiveSlots == {i \in DOMAIN imageSlots : imageSlots[i].status \in {"pending", "generating"}}

\* C28: with batches started from the Generate button only, the slots that are
\* pending or generating share one batchId and are at most five.
C28_OneActiveBatch ==
    /\ Cardinality(ActiveSlots) <= MaxImages
    /\ \A i, j \in ActiveSlots : imageSlots[i].batchId = imageSlots[j].batchId

\* the keys of the files that were stored, in the order the files were supplied
StoredInSuppliedOrder ==
    LET stored == SelectSeq(upload.tasks, LAMBDA task : task.state = "stored")
    IN  [i \in DOMAIN stored |-> stored[i].r2Key]

\* C30: the uploadedImages of the response list the stored files in the order
\* the files were supplied.
C30_UploadedInSuppliedOrder ==
    upload.pc = "done" =>
        [i \in DOMAIN upload.uploadedImages |-> upload.uploadedImages[i].r2Key]
            = StoredInSuppliedOrder

\* every call so far has returned { success: true, count }
AllTracked ==
    /\ analytics.calls # <<>>
    /\ \A c \in DOMAIN analytics.calls :
          analytics.calls[c].pc = "done" /\ analytics.calls[c].result.success

\* C27: once k calls of trackServerExecution have all succeeded, the stored
\* count is the initial count plus k and the counts returned are all different.
C27_EveryExecutionCounted ==
    AllTracked =>
        /\ ParseInt(analytics.kv) =
              (IF analytics.initial = NoValue THEN 0 ELSE ParseInt(analytics.initial))
                 + Len(analytics.calls)
        /\ \A c, d \in DOMAIN analytics.calls :
              analytics.calls[c].result.count = analytics.calls[d].result.count => c = d

\* the file names behind a sequence of files or stored images
NamesOf(files, field) == {files[i][field] : i \in DOMAIN files}

\* C26: once no upload is in flight and the current selection has been answered,
\* the stored reference images are those of the current selection (none for a
\* selection without valid files), one key for each of them.
C26_KeysFollowLatestSelection ==
    refHook.inflight = {} /\ refHook.latestAnswered =>
        /\ NamesOf(refHook.uploadedReferenceImages, "filename") =
              NamesOf(ValidFiles(form.referenceImages), "name")
        /\ Len(refHook.referenceImageKeys) = Len(ValidFiles(form.referenceImages))

\* the number of slots with the id
SlotCount(id) == Cardinality({i \in DOMAIN imageSlots : imageSlots[i].id = id})

\* a request for the id is in flight whose slot has been removed
RemovedSlotAwaited(id) == CopiesIn(id, mutations) > SlotCount(id)

\* slots is a subsequence of imageSlots
RECURSIVE IsSubSeq(_, _)
IsSubSeq(sub, full) ==
    IF sub = <<>> THEN TRUE
    ELSE IF full = <<>> THEN FALSE
    ELSE IF Head(sub) = Head(full) THEN IsSubSeq(Tail(sub), Tail(full))
    ELSE IsSubSeq(sub, Tail(full))

\* clearCompleted leaves the pending and generating slots, each unchanged and in
\* order, and no completed or error slot
C29_ClearCompletedKeepsActive ==
    [][lastOp'.op = "clearCompleted" =>
          /\ IsSubSeq(imageSlots', imageSlots)
          /\ Len(imageSlots') =
                Cardinality({i \in DOMAIN imageSlots :
                                imageSlots[i].status \in {"pending", "generating"}})
          /\ \A i \in DOMAIN imageSlots' :
                imageSlots'[i].status \in {"pending", "generating"}]_vars

\* clearAll leaves no slot
C29_ClearAllEmpties ==
    [][lastOp'.op = "clearAll" => imageSlots' = <<>>]_vars

\* an answer for an id none of whose slots is left changes no slot
C29_AnswerWithoutSlot ==
    [][lastOp'.op \in {"onSuccess", "onError"} /\ lastOp'.before = {}
          => imageSlots' = imageSlots]_vars

\* the answer to the request of a removed slot changes no slot
C29_RemovedSlotAnswer ==
    [][\A id \in BagToSet(mutations) :
          /\ lastOp'.op \in {"onSuccess", "onError"}
          /\ mutations' = mutations (-) SetToBag({id})
          /\ RemovedSlotAwaited(id)
          => imageSlots' = imageSlots]_vars

\* C29: clearCompleted removes exactly the completed and error slots and keeps
\* the pending and generating ones unchanged, clearAll removes every slot, and a
\* completion or failure arriving for a slot removed by either changes no slot.
C29_ClearedSlotsStayCleared ==
    /\ C29_ClearCompletedKeepsActive
    /\ C29_ClearAllEmpties
    /\ C29_RemovedSlotAnswer
====
